---- MODULE Spec2Model ----
(***************************************************************************)
(* A model of the rocksdb-fileformat crate of yaledb: the block codec      *)
(* (block_builder.rs, data_block.rs, index_block.rs), the footer codec     *)
(* (footer.rs), the SST writer (sst_file_writer.rs) and the reader and     *)
(* iterators (sst_reader.rs, iterator.rs).                                 *)
(*                                                                         *)
(* Byte strings are sequences of numbers 0..255.  A u32 that is only ever  *)
(* a length or an offset is a number; a u32 that is a checksum is kept as  *)
(* its four little-endian bytes, so that wrapping arithmetic is exact.     *)
(***************************************************************************)
EXTENDS Integers, Sequences, FiniteSets, TLC

VARIABLES
    \* SstFileWriter (sst_file_writer.rs:20-30)
    options, writer, data_block_builder, index_block_builder, offset,
    num_entries, last_key, finished, pending_index_entry,
    \* the bytes of the file behind the writer, and what the last call returned
    file, result,
    \* history: the entries the writer accepted, the data blocks it wrote, the
    \* Footer that finish built
    accepted, blocks, written_footer,
    \* SstReader / SstTableIterator over the finished file
    sst_reader, iterator,
    \* the codec specifications: an input, its encoding, its decoding
    pc, arg, enc, dec

writerVars == <<options, writer, data_block_builder, index_block_builder, offset,
                num_entries, last_key, finished, pending_index_entry, file, result,
                accepted, blocks, written_footer>>
readerVars == <<sst_reader, iterator>>
codecVars == <<pc, arg, enc, dec>>
vars == <<writerVars, readerVars, codecVars>>

----------------------------------------------------------------------------
(* Bounds of the model. *)

\* entries given to one block builder in BlockSpec
MaxBlockEntries == 3
\* largest restart interval tried
MaxRestartInterval == 2

----------------------------------------------------------------------------
(* Byte strings. *)

Byte == 0..255

None == [some |-> FALSE]
Some(v) == [some |-> TRUE, v |-> v]

Ok(v) == [ok |-> TRUE, v |-> v]
Err(e) == [ok |-> FALSE, err |-> e]

Min(a, b) == IF a <= b THEN a ELSE b

\* s[from..to) with 0-based offsets, as a Rust slice
Slice(s, from, to) == SubSeq(s, from + 1, to)

Zeros(n) == IF n <= 0 THEN <<>> ELSE [i \in 1..n |-> 0]

\* Ord for [u8]: lexicographic, a proper prefix is smaller
RECURSIVE LexLess(_, _)
LexLess(a, b) ==
    IF b = <<>> THEN FALSE
    ELSE IF a = <<>> THEN TRUE
    ELSE IF Head(a) # Head(b) THEN Head(a) < Head(b)
    ELSE LexLess(Tail(a), Tail(b))

LexLeq(a, b) == a = b \/ LexLess(a, b)

Pow2(shift) == CASE shift = 0 -> 1 [] shift = 7 -> 128 [] shift = 14 -> 16384
                 [] shift = 21 -> 2097152 [] shift = 28 -> 268435456

\* the largest number the model holds (2^31 - 1); a decoded u32 above it is kept
\* as this value (such a number is only compared with lengths of blocks, all far
\* smaller)
U32Cap == 7 * Pow2(28) + (Pow2(28) - 1)

\* write_u32::<LittleEndian> of a length or an offset
U32LE(n) == << n % 256, (n \div 256) % 256, (n \div 65536) % 256, (n \div 16777216) % 256 >>

\* read_u32::<LittleEndian> at 0-based position p
ReadU32LE(s, p) ==
    IF s[p + 4] >= 128 THEN U32Cap
    ELSE s[p + 1] + 256 * s[p + 2] + 65536 * s[p + 3] + 16777216 * s[p + 4]

\* encode_varint (block_builder.rs:194-200), for a u32
RECURSIVE EncodeVarint32(_)
EncodeVarint32(value) ==
    IF value >= 128 THEN << (value % 128) + 128 >> \o EncodeVarint32(value \div 128)
    ELSE << value >>

\* read_varint (data_block.rs:129-154, index_block.rs:177-232): the loop from
\* position pos (0-based) with the bits read so far; InvalidVarint past the end
\* of the data or on a continuation bit in the fifth byte
RECURSIVE ReadVarintLoop(_, _, _, _)
ReadVarintLoop(data, pos, acc, shift) ==
    IF pos >= Len(data) THEN Err("InvalidVarint")
    ELSE LET byte == data[pos + 1]
             low  == byte % 128
             sum  == IF acc = U32Cap THEN U32Cap
                     ELSE IF shift = 28
                          THEN (IF low % 16 >= 8 THEN U32Cap ELSE acc + (low % 16) * Pow2(28))
                          ELSE acc + low * Pow2(shift)
         IN  IF byte < 128 THEN Ok([value |-> sum, pos |-> pos + 1])
             ELSE IF shift + 7 >= 32 THEN Err("InvalidVarint")
             ELSE ReadVarintLoop(data, pos + 1, sum, shift + 7)

read_varint(data, pos) == ReadVarintLoop(data, pos, 0, 0)

----------------------------------------------------------------------------
(* Checksums (types.rs).  A checksum is a u32 kept as four little-endian    *)
(* bytes.                                                                   *)

ChecksumType_None == 0
ChecksumType_CRC32c == 1
ChecksumType_Hash == 2
ChecksumType_Hash64 == 3
ChecksumType_XXH3 == 4

\* TryFrom<u8> for ChecksumType
ChecksumType_try_from(value) ==
    IF value \in 0..4 THEN Ok(value) ELSE Err("UnsupportedChecksumType")

RECURSIVE XorBits(_, _, _)
XorBits(a, b, n) ==
    IF n = 0 THEN 0
    ELSE (((a % 2) + (b % 2)) % 2) + 2 * XorBits(a \div 2, b \div 2, n - 1)

\* a ^ b on u32
Xor32(a, b) == [i \in 1..4 |-> XorBits(a[i], b[i], 8)]

\* a.wrapping_add(b) on u32
wrapping_add(a, b) ==
    LET s1 == a[1] + b[1]
        s2 == a[2] + b[2] + s1 \div 256
        s3 == a[3] + b[3] + s2 \div 256
        s4 == a[4] + b[4] + s3 \div 256
    IN  << s1 % 256, s2 % 256, s3 % 256, s4 % 256 >>

\* (byte as u32).wrapping_mul(k) for a u32 k
wrapping_mul_byte(byte, k) ==
    LET p1 == byte * k[1]
        p2 == byte * k[2] + p1 \div 256
        p3 == byte * k[3] + p2 \div 256
        p4 == byte * k[4] + p3 \div 256
    IN  << p1 % 256, p2 % 256, p3 % 256, p4 % 256 >>

\* (x >> 15) | (x << 17) on u32: a rotation left by 16 and by one more bit
RotateRight15(x) ==
    LET lo == x[3] + 256 * x[4]
        hi == x[1] + 256 * x[2]
        lo1 == ((lo * 2) % 65536) + (hi \div 32768)
        hi1 == ((hi * 2) % 65536) + (lo \div 32768)
    IN  << lo1 % 256, lo1 \div 256, hi1 % 256, hi1 \div 256 >>

\* The digests of the crc32c and xxhash crates (crc32c::crc32c, xxh32, xxh64,
\* xxh3_64, each cut to 32 bits): a deterministic function of the bytes and
\* their order, one per algorithm.
RECURSIVE DigestSum(_, _, _)
DigestSum(data, i, k) ==
    IF i = 0 THEN 0
    ELSE LET term == CASE k = 1 -> data[i] + 1
                       [] k = 2 -> i * data[i]
                       [] k = 3 -> ((i * i) % 256) * data[i]
                       [] k = 4 -> ((data[i] + i) % 256) * (data[i] + 1)
         IN  ((term % 256) + DigestSum(data, i - 1, k)) % 256

Digest(algorithm, data) ==
    << (algorithm + DigestSum(data, Len(data), 1)) % 256,
       (2 * algorithm + DigestSum(data, Len(data), 2)) % 256,
       (Len(data) + DigestSum(data, Len(data), 3)) % 256,
       (algorithm + DigestSum(data, Len(data), 4)) % 256 >>

MASK_DELTA == << 216, 234, 130, 162 >>
RANDOM_PRIME == << 217, 131, 144, 107 >>

\* ChecksumType::calculate
ChecksumType_calculate(checksum_type, data) ==
    CASE checksum_type = ChecksumType_None -> << 0, 0, 0, 0 >>
      [] checksum_type = ChecksumType_CRC32c ->
            wrapping_add(RotateRight15(Digest(ChecksumType_CRC32c, data)), MASK_DELTA)
      [] checksum_type = ChecksumType_Hash -> Digest(ChecksumType_Hash, data)
      [] checksum_type = ChecksumType_Hash64 -> Digest(ChecksumType_Hash64, data)
      [] checksum_type = ChecksumType_XXH3 ->
            IF data = <<>> THEN << 0, 0, 0, 0 >>
            ELSE LET without_last == SubSeq(data, 1, Len(data) - 1)
                     v == Digest(ChecksumType_XXH3, without_last)
                 IN  Xor32(v, wrapping_mul_byte(data[Len(data)], RANDOM_PRIME))

\* checksum_modifier_for_context(base_context_checksum, offset): zero for a zero
\* base, otherwise the base xor (low 32 bits of the offset + high 32 bits)
checksum_modifier_for_context(base_context_checksum, file_offset) ==
    IF base_context_checksum = << 0, 0, 0, 0 >> THEN << 0, 0, 0, 0 >>
    ELSE Xor32(base_context_checksum, U32LE(file_offset))

----------------------------------------------------------------------------
(* Compression (compression.rs). *)

CompressionType_None == 0
CompressionType_Snappy == 1
CompressionType_Zlib == 2
CompressionType_BZip2 == 3
CompressionType_LZ4 == 4
CompressionType_LZ4HC == 5
CompressionType_XPRESS == 6
CompressionType_ZSTD == 7

\* The stream a codec of the snap, flate2, lz4 and zstd crates makes of the
\* data: self-delimiting (it states the length of what it holds) and not the
\* data itself.
StreamEncode(codec, data) ==
    << Len(data) >> \o [i \in 1..Len(data) |-> (data[i] + codec) % 256]

\* The codec's decoder.  On a stream followed by further bytes a decoder either
\* fails or stops at the end of the stream; which of the two is the crate's
\* choice (lenient).
StreamDecode(codec, bytes, lenient) ==
    IF bytes = <<>> THEN Err("Decompression")
    ELSE LET n == bytes[1]
         IN  IF Len(bytes) - 1 < n THEN Err("Decompression")
             ELSE IF Len(bytes) - 1 > n /\ ~lenient THEN Err("Decompression")
             ELSE Ok([i \in 1..n |-> (bytes[i + 1] + 256 - codec) % 256])

\* compress
compress(data, compression_type) ==
    CASE compression_type = CompressionType_None -> Ok(data)
      [] compression_type \in {CompressionType_Snappy, CompressionType_Zlib,
                               CompressionType_ZSTD} ->
            Ok(StreamEncode(compression_type, data))
      [] compression_type = CompressionType_LZ4 ->
            Ok(U32LE(Len(data)) \o StreamEncode(compression_type, data))
      [] OTHER -> Err("UnsupportedCompressionType")

\* decompress
decompress(data, compression_type, lenient) ==
    CASE compression_type = CompressionType_None -> Ok(data)
      [] compression_type \in {CompressionType_Snappy, CompressionType_Zlib,
                               CompressionType_ZSTD} ->
            StreamDecode(compression_type, data, lenient)
      [] compression_type = CompressionType_LZ4 ->
            IF Len(data) < 4 THEN Err("Decompression")
            ELSE StreamDecode(compression_type, Slice(data, 4, Len(data)), lenient)
      [] OTHER -> Err("UnsupportedCompressionType")

----------------------------------------------------------------------------
(* Block builders (block_builder.rs). *)

BlockHandle(off, size) == [offset |-> off, size |-> size]

\* the length of the common prefix of last_key and key (the while loop of add)
RECURSIVE SharedLoop(_, _, _)
SharedLoop(last, key, shared) ==
    IF shared < Min(Len(last), Len(key)) /\ last[shared + 1] = key[shared + 1]
    THEN SharedLoop(last, key, shared + 1)
    ELSE shared

\* DataBlockBuilder::new: one restart point, at offset 0
DataBlockBuilder_new(restart_interval) ==
    [buffer |-> <<>>, restarts |-> <<0>>, counter |-> 0,
     restart_interval |-> restart_interval, last_key |-> <<>>, finished |-> FALSE]

\* DataBlockBuilder::add with the shared prefix kept across a restart point
DataBlockBuilder_add_SharedAtRestart(b, key, value) ==
    LET restart == ~(b.counter < b.restart_interval)
        shared == SharedLoop(b.last_key, key, 0)
        non_shared == Len(key) - shared
    IN  [b EXCEPT
           !.restarts = IF restart THEN Append(@, Len(b.buffer)) ELSE @,
           !.buffer = @ \o EncodeVarint32(shared) \o EncodeVarint32(non_shared)
                        \o EncodeVarint32(Len(value))
                        \o Slice(key, shared, Len(key)) \o value,
           !.last_key = key,
           !.counter = (IF restart THEN 0 ELSE @) + 1]

\* DataBlockBuilder::add with a restart point only once counter is past the interval
DataBlockBuilder_add_RestartLate(b, key, value) ==
    LET restart == b.counter > b.restart_interval
        shared == IF restart THEN 0 ELSE SharedLoop(b.last_key, key, 0)
        non_shared == Len(key) - shared
    IN  [b EXCEPT
           !.restarts = IF restart THEN Append(@, Len(b.buffer)) ELSE @,
           !.buffer = @ \o EncodeVarint32(shared) \o EncodeVarint32(non_shared)
                        \o EncodeVarint32(Len(value))
                        \o Slice(key, shared, Len(key)) \o value,
           !.last_key = key,
           !.counter = (IF restart THEN 0 ELSE @) + 1]

\* the assertions DataBlockBuilder::add opens with (the buffer of the model is
\* always shorter than u32::MAX)
DataBlockBuilder_add_asserts(b) == ~b.finished /\ b.counter <= b.restart_interval

\* DataBlockBuilder::add, past its assertions
DataBlockBuilder_add(b, key, value) ==
    LET restart == ~(b.counter < b.restart_interval)
        shared == IF restart THEN 0 ELSE SharedLoop(b.last_key, key, 0)
        non_shared == Len(key) - shared
    IN  [b EXCEPT
           !.restarts = IF restart THEN Append(@, Len(b.buffer)) ELSE @,
           !.buffer = @ \o EncodeVarint32(shared) \o EncodeVarint32(non_shared)
                        \o EncodeVarint32(Len(value))
                        \o Slice(key, shared, Len(key)) \o value,
           !.last_key = key,
           !.counter = (IF restart THEN 0 ELSE @) + 1]

\* the restart array followed by the restart count
RECURSIVE RestartArray(_, _)
RestartArray(restarts, i) ==
    IF i > Len(restarts) THEN U32LE(Len(restarts))
    ELSE U32LE(restarts[i]) \o RestartArray(restarts, i + 1)

\* the checksum of the bytes alone, the tag left out
TrailerChecksum_PayloadOnly(bytes, compression_type, checksum_type, file_offset, base_context_checksum) ==
    wrapping_add(ChecksumType_calculate(checksum_type, bytes),
                 IF file_offset.some /\ base_context_checksum.some
                 THEN checksum_modifier_for_context(base_context_checksum.v, file_offset.v)
                 ELSE << 0, 0, 0, 0 >>)

\* the checksum of (bytes, tag), with the context modifier when both a file
\* offset and a base context checksum are given
TrailerChecksum(bytes, compression_type, checksum_type, file_offset, base_context_checksum) ==
    wrapping_add(ChecksumType_calculate(checksum_type, Append(bytes, compression_type)),
                 IF file_offset.some /\ base_context_checksum.some
                 THEN checksum_modifier_for_context(base_context_checksum.v, file_offset.v)
                 ELSE << 0, 0, 0, 0 >>)

\* the block of a finished builder: the payload, the tag and the checksum
BlockWithTrailer(b, payload, compression_type, checksum_type, file_offset, base_context_checksum) ==
    IF ~payload.ok THEN [b |-> b, out |-> payload]
    ELSE [b |-> b,
          out |-> Ok(payload.v \o << compression_type >>
                     \o TrailerChecksum(payload.v, compression_type, checksum_type,
                                        file_offset, base_context_checksum))]

\* finish once the restart array is in the buffer
BuilderFinishBuffer(b, compression_type, checksum_type, file_offset, base_context_checksum) ==
    BlockWithTrailer(b,
        IF compression_type = CompressionType_None THEN Ok(b.buffer)
        ELSE compress(b.buffer, compression_type),
        compression_type, checksum_type, file_offset, base_context_checksum)

\* the part of finish both builders share: [b |-> the builder after the call,
\* out |-> the block or the error]; a finished builder panics
BuilderFinish(b, compression_type, checksum_type, file_offset, base_context_checksum) ==
    IF b.finished THEN [b |-> b, out |-> Err("panic")]
    ELSE BuilderFinishBuffer(
             [b EXCEPT !.finished = TRUE, !.buffer = @ \o RestartArray(b.restarts, 1)],
             compression_type, checksum_type, file_offset, base_context_checksum)

\* DataBlockBuilder::finish
DataBlockBuilder_finish(b, compression_type, checksum_type, file_offset, base_context_checksum) ==
    BuilderFinish(b, compression_type, checksum_type, file_offset, base_context_checksum)

\* DataBlockBuilder::reset that keeps the last key
DataBlockBuilder_reset_KeepsLastKey(b) ==
    [DataBlockBuilder_new(b.restart_interval) EXCEPT !.last_key = b.last_key]

\* DataBlockBuilder::reset
DataBlockBuilder_reset(b) == DataBlockBuilder_new(b.restart_interval)

\* DataBlockBuilder::empty
DataBlockBuilder_empty(b) == b.buffer = <<>>

\* DataBlockBuilder::size_estimate
DataBlockBuilder_size_estimate(b) == Len(b.buffer) + 4 * Len(b.restarts) + 4 + 5

\* IndexBlockBuilder::new
IndexBlockBuilder_new(restart_interval) ==
    [buffer |-> <<>>, restarts |-> <<0>>, counter |-> 0,
     restart_interval |-> restart_interval, last_key |-> <<>>, finished |-> FALSE]

\* IndexBlockBuilder::add_index_entry, past its assertions: the value is the
\* handle's offset and size, each cast to u32 and written as a varint (the
\* offsets and sizes of the model are below 2^31, where the cast changes nothing)
IndexBlockBuilder_add_index_entry(b, key, block_handle) ==
    LET restart == ~(b.counter < b.restart_interval)
        shared == IF restart THEN 0 ELSE SharedLoop(b.last_key, key, 0)
        non_shared == Len(key) - shared
        handle_data == EncodeVarint32(block_handle.offset) \o EncodeVarint32(block_handle.size)
    IN  [b EXCEPT
           !.restarts = IF restart THEN Append(@, Len(b.buffer)) ELSE @,
           !.buffer = @ \o EncodeVarint32(shared) \o EncodeVarint32(non_shared)
                        \o EncodeVarint32(Len(handle_data))
                        \o Slice(key, shared, Len(key)) \o handle_data,
           !.last_key = key,
           !.counter = (IF restart THEN 0 ELSE @) + 1]

\* IndexBlockBuilder::finish
IndexBlockBuilder_finish(b, compression_type, checksum_type, file_offset, base_context_checksum) ==
    BuilderFinish(b, compression_type, checksum_type, file_offset, base_context_checksum)

----------------------------------------------------------------------------
(* Block parsing (data_block.rs, index_block.rs). *)

\* the u32 restart offsets read from position p on
RECURSIVE ReadRestarts(_, _, _)
ReadRestarts(data, p, n) ==
    IF n = 0 THEN <<>> ELSE << ReadU32LE(data, p) >> \o ReadRestarts(data, p + 4, n - 1)

\* is_restart_point
is_restart_point(block, off) == \E i \in 1..Len(block.restart_points) : block.restart_points[i] = off

\* the payload of a block without the five bytes of a trailer
StripTrailer(raw_data) ==
    IF Len(raw_data) >= 5 THEN Slice(raw_data, 0, Len(raw_data) - 5) ELSE raw_data

\* the block, once the restart count is read; fallback is what a count of zero
\* or a count the payload cannot hold gives (and, for an index block, a count
\* above 1000)
BlockWithRestarts(data, num_restarts, fallback) ==
    IF num_restarts = 0 \/ (fallback.ok /\ num_restarts > 1000) THEN fallback
    ELSE IF num_restarts > (Len(data) - 4) \div 4 THEN fallback
    ELSE Ok([data |-> data,
             restart_offset |-> Len(data) - 4 - num_restarts * 4,
             num_restarts |-> num_restarts,
             restart_points |->
                 ReadRestarts(data, Len(data) - 4 - num_restarts * 4, num_restarts)])

\* the block of a payload
BlockOfData(data, fallback) ==
    IF Len(data) < 4 THEN Err("InvalidBlockFormat")
    ELSE BlockWithRestarts(data, ReadU32LE(data, Len(data) - 4), fallback)

\* DataBlock::new once the input is decompressed
DataBlockOfRaw(raw_data) ==
    IF ~raw_data.ok THEN raw_data
    ELSE BlockOfData(StripTrailer(raw_data.v), Err("InvalidBlockFormat"))

\* DataBlock::new
DataBlock_new(compressed_data, compression_type, lenient) ==
    DataBlockOfRaw(decompress(compressed_data, compression_type, lenient))

\* the three varints that head an entry, once all are read
HeaderOfVarints(shared_key_len, unshared_key_len, value_len) ==
    IF ~value_len.ok THEN value_len
    ELSE Ok([shared_key_len |-> shared_key_len,
             unshared_key_len |-> unshared_key_len,
             value_len |-> value_len.v.value,
             pos |-> value_len.v.pos])

\* the header once the shared and the unshared length are read
HeaderAfterUnshared(data, shared_key_len, unshared) ==
    IF ~unshared.ok THEN unshared
    ELSE HeaderOfVarints(shared_key_len, unshared.v.value, read_varint(data, unshared.v.pos))

\* the header once the shared length is read
HeaderAfterShared(data, shared) ==
    IF ~shared.ok THEN shared
    ELSE HeaderAfterUnshared(data, shared.v.value, read_varint(data, shared.v.pos))

\* the three varints that head an entry
ReadEntryHeader(data, pos) == HeaderAfterShared(data, read_varint(data, pos))

\* the key of an entry with header h after the key last
EntryKey(data, last, h) ==
    Slice(last, 0, h.shared_key_len) \o Slice(data, h.pos, h.pos + h.unshared_key_len)

\* the value bytes of an entry with header h
EntryValue(data, h) ==
    Slice(data, h.pos + h.unshared_key_len, h.pos + h.unshared_key_len + h.value_len)

\* DataBlock::get_entries: the while loop from cursor position pos; last_key is
\* cleared at a restart point before the entry is read
RECURSIVE DataBlockEntriesLoop(_, _, _, _)
RECURSIVE DataBlockEntry(_, _, _, _)
DataBlockEntry(block, cleared, entries, h) ==
    IF ~h.ok THEN h
    ELSE IF h.v.shared_key_len > Len(cleared) THEN Err("InvalidBlockFormat")
    ELSE IF h.v.unshared_key_len > Len(block.data) - h.v.pos THEN Err("InvalidBlockFormat")
    ELSE IF h.v.value_len > Len(block.data) - (h.v.pos + h.v.unshared_key_len)
    THEN Err("InvalidBlockFormat")
    ELSE DataBlockEntriesLoop(block, h.v.pos + h.v.unshared_key_len + h.v.value_len,
             EntryKey(block.data, cleared, h.v),
             Append(entries, [key |-> EntryKey(block.data, cleared, h.v),
                              value |-> EntryValue(block.data, h.v)]))

DataBlockEntriesLoop(block, pos, last, entries) ==
    IF ~(pos < block.restart_offset) THEN Ok(entries)
    ELSE DataBlockEntry(block, IF is_restart_point(block, pos) THEN <<>> ELSE last, entries,
                        ReadEntryHeader(block.data, pos))

\* DataBlock::get_entries
DataBlock_get_entries(block) == DataBlockEntriesLoop(block, 0, <<>>, <<>>)

\* DataBlockReader::new once the entries are parsed
ReaderOfEntries(entries) ==
    IF ~entries.ok THEN entries ELSE Ok([entries |-> entries.v, current_entry |-> 0])

\* DataBlockReader::new once the block is parsed
ReaderOfDataBlock(block) ==
    IF ~block.ok THEN block ELSE ReaderOfEntries(DataBlock_get_entries(block.v))

\* DataBlockReader::new: the block and all its entries, parsed eagerly
DataBlockReader_new(compressed_data, compression_type, lenient) ==
    ReaderOfDataBlock(DataBlock_new(compressed_data, compression_type, lenient))

\* DataBlockReader::seek_to_first
DataBlockReader_seek_to_first(r) == [r EXCEPT !.current_entry = 0]

\* DataBlockReader::next: [r |-> the reader after the call, out |-> the entry]
DataBlockReader_next(r) ==
    IF r.current_entry < Len(r.entries)
    THEN [r |-> [r EXCEPT !.current_entry = @ + 1], out |-> Some(r.entries[r.current_entry + 1])]
    ELSE [r |-> r, out |-> None]

\* DataBlockReader::valid
DataBlockReader_valid(r) == r.current_entry < Len(r.entries)

\* DataBlockReader::key
DataBlockReader_key(r) ==
    IF r.current_entry > 0 /\ r.current_entry <= Len(r.entries)
    THEN Some(r.entries[r.current_entry].key)
    ELSE None

\* DataBlockReader::value
DataBlockReader_value(r) ==
    IF r.current_entry > 0 /\ r.current_entry <= Len(r.entries)
    THEN Some(r.entries[r.current_entry].value)
    ELSE None

\* the least member of a nonempty set of numbers
Least(hits) == CHOOSE i \in hits : \A j \in hits : i <= j

\* the entries whose key is at or past the target
AtOrPast(entries, target_key) ==
    {i \in 1..Len(entries) : LexLeq(target_key, entries[i].key)}

\* DataBlockReader::seek: [r |-> the reader after the call, out |-> found]
DataBlockReader_seek(r, target_key) ==
    IF AtOrPast(r.entries, target_key) # {}
    THEN [r |-> [r EXCEPT !.current_entry = Least(AtOrPast(r.entries, target_key)) - 1],
          out |-> TRUE]
    ELSE [r |-> [r EXCEPT !.current_entry = Len(r.entries)], out |-> FALSE]

\* what IndexBlock::new falls back to: the whole payload as entries
WholePayload(data) ==
    Ok([data |-> data, restart_offset |-> Len(data), num_restarts |-> 1,
        restart_points |-> <<0>>])

\* IndexBlock::new once the input is decompressed
IndexBlockOfRaw(raw_data) ==
    IF ~raw_data.ok THEN raw_data
    ELSE BlockOfData(StripTrailer(raw_data.v), WholePayload(StripTrailer(raw_data.v)))

\* IndexBlock::new
IndexBlock_new(compressed_data, compression_type, lenient) ==
    IndexBlockOfRaw(decompress(compressed_data, compression_type, lenient))

\* parse_block_handle once the offset is read
HandleAfterOffset(off, size) ==
    IF ~size.ok THEN size ELSE Ok(BlockHandle(off, size.v.value))

\* parse_block_handle from the offset on
HandleOfOffset(data, off) ==
    IF ~off.ok THEN off ELSE HandleAfterOffset(off.v.value, read_varint(data, off.v.pos))

\* IndexBlock::parse_block_handle: two u32 varints
parse_block_handle(data) == HandleOfOffset(data, read_varint(data, 0))

\* the restart points past 0 that hold a zero byte
ZeroRestarts(block) ==
    {i \in 1..Len(block.restart_points) :
        /\ block.restart_points[i] < Len(block.data)
        /\ block.restart_points[i] > 0
        /\ block.data[block.restart_points[i] + 1] = 0}

\* IndexBlock::get_entries: where the loop starts (the first restart point past
\* 0 that holds a zero byte, when the block does not begin with a zero byte)
IndexStartPos(block) ==
    IF Len(block.data) > 0 /\ block.data[1] # 0 /\ ZeroRestarts(block) # {}
    THEN block.restart_points[Least(ZeroRestarts(block))]
    ELSE 0

\* IndexBlock::get_entries: the while loop from cursor position pos; last_key is
\* cleared at a restart point after the entry is read
RECURSIVE IndexBlockEntriesLoop(_, _, _, _)
RECURSIVE IndexBlockEntry(_, _, _, _, _)
RECURSIVE IndexBlockEntryHandle(_, _, _, _, _, _)
IndexBlockEntryHandle(block, pos, last, entries, h, block_handle) ==
    IF ~block_handle.ok THEN block_handle
    ELSE IndexBlockEntriesLoop(block, h.pos + h.unshared_key_len + h.value_len,
             IF is_restart_point(block, pos) THEN <<>> ELSE EntryKey(block.data, last, h),
             Append(entries, [key |-> EntryKey(block.data, last, h),
                              block_handle |-> block_handle.v]))

IndexBlockEntry(block, pos, last, entries, h) ==
    IF ~h.ok THEN h
    ELSE IF h.v.shared_key_len > Len(last) THEN Err("InvalidBlockFormat")
    ELSE IF h.v.unshared_key_len > Len(block.data) - h.v.pos THEN Err("InvalidBlockFormat")
    ELSE IF h.v.value_len = 0 THEN Err("InvalidBlockFormat")
    ELSE IF h.v.value_len > Len(block.data) - (h.v.pos + h.v.unshared_key_len)
    THEN Err("InvalidBlockFormat")
    ELSE IndexBlockEntryHandle(block, pos, last, entries, h.v,
                               parse_block_handle(EntryValue(block.data, h.v)))

IndexBlockEntriesLoop(block, pos, last, entries) ==
    IF ~(pos < block.restart_offset) THEN Ok(entries)
    ELSE IndexBlockEntry(block, pos, last, entries, ReadEntryHeader(block.data, pos))

\* IndexBlock::get_entries
IndexBlock_get_entries(block) == IndexBlockEntriesLoop(block, IndexStartPos(block), <<>>, <<>>)

\* find_block_for_key once the entries are parsed
FindInEntries(entries, target_key) ==
    IF ~entries.ok THEN entries
    ELSE IF AtOrPast(entries.v, target_key) # {}
    THEN Ok(Some(entries.v[Least(AtOrPast(entries.v, target_key))].block_handle))
    ELSE IF entries.v # <<>> THEN Ok(Some(entries.v[Len(entries.v)].block_handle))
    ELSE Ok(None)

\* IndexBlock::find_block_for_key: Ok(Some(handle)), Ok(None) or the error
IndexBlock_find_block_for_key(block, target_key) ==
    FindInEntries(IndexBlock_get_entries(block), target_key)

\* get_all_block_handles once the entries are parsed
HandlesOfEntries(entries) ==
    IF ~entries.ok THEN entries
    ELSE Ok([i \in 1..Len(entries.v) |-> entries.v[i].block_handle])

\* IndexBlock::get_all_block_handles
IndexBlock_get_all_block_handles(block) == HandlesOfEntries(IndexBlock_get_entries(block))

----------------------------------------------------------------------------
(* Varint64 and BlockHandle (block_handle.rs).  The offsets and sizes of the *)
(* model are below 2^31; a decoded number above that is kept as U32Cap.      *)

\* write_varint64 that emits the low seven bits only
write_varint64_LowBitsOnly(value) ==
    << value % 128 >>

\* write_varint64
RECURSIVE write_varint64(_)
write_varint64(value) ==
    IF value >= 128 THEN << (value % 128) + 128 >> \o write_varint64(value \div 128)
    ELSE << value >>

\* read_varint64: at most ten bytes; reading past the end of the input is the
\* reader's UnexpectedEof, an Io error
RECURSIVE ReadVarint64Loop(_, _, _, _, _)
ReadVarint64Loop(data, pos, acc, shift, n) ==
    IF n = 10 THEN Err("InvalidVarint")
    ELSE IF pos >= Len(data) THEN Err("Io")
    ELSE LET byte == data[pos + 1]
             low  == byte % 128
             sum  == IF acc = U32Cap THEN U32Cap
                     ELSE IF low = 0 THEN acc
                     ELSE IF shift > 28 \/ (shift = 28 /\ low >= 8) THEN U32Cap
                     ELSE acc + low * Pow2(shift)
         IN  IF byte < 128 THEN Ok([value |-> sum, pos |-> pos + 1])
             ELSE ReadVarint64Loop(data, pos + 1, sum, shift + 7, n + 1)

read_varint64(data, pos) == ReadVarint64Loop(data, pos, 0, 0, 0)

\* BlockHandle::encode_to
BlockHandle_encode_to(h) == write_varint64(h.offset) \o write_varint64(h.size)

\* decode_from once the offset is read
HandleWithSize(off, size) ==
    IF ~size.ok THEN size
    ELSE Ok([handle |-> BlockHandle(off, size.v.value), pos |-> size.v.pos])

\* decode_from from the offset on
HandleFromOffset(data, off) ==
    IF ~off.ok THEN off ELSE HandleWithSize(off.v.value, read_varint64(data, off.v.pos))

\* BlockHandle::decode_from a cursor at pos: the handle and the cursor after it
BlockHandle_decode_from(data, pos) == HandleFromOffset(data, read_varint64(data, pos))

----------------------------------------------------------------------------
(* Footer (footer.rs). *)

ROCKSDB_MAGIC_NUMBER == << 247, 207, 244, 133, 183, 65, 226, 136 >>
LEGACY_MAGIC_NUMBER == << 87, 251, 128, 139, 36, 117, 71, 219 >>
FOOTER_SIZE == 49
EXTENDED_MAGIC == << 62, 0, 122, 0 >>

Footer(checksum_type, metaindex_handle, index_handle, format_version, base_context_checksum) ==
    [checksum_type |-> checksum_type, metaindex_handle |-> metaindex_handle,
     index_handle |-> index_handle, format_version |-> format_version,
     base_context_checksum |-> base_context_checksum]

\* Footer::encode_to_bytes
Footer_encode_to_bytes(f, file_offset) ==
    IF f.format_version >= 6
    THEN LET base_context_checksum ==
                 IF f.base_context_checksum.some THEN f.base_context_checksum.v
                 ELSE << 0, 0, 0, 0 >>
             head == << f.checksum_type >> \o EXTENDED_MAGIC
             tail == base_context_checksum \o U32LE(f.metaindex_handle.size)
                     \o Zeros(8) \o Zeros(16)
                     \o U32LE(f.format_version) \o ROCKSDB_MAGIC_NUMBER
             computed_checksum ==
                 ChecksumType_calculate(f.checksum_type, head \o Zeros(4) \o tail)
             modified_checksum ==
                 wrapping_add(computed_checksum,
                     checksum_modifier_for_context(base_context_checksum, file_offset))
         IN  Ok(head \o modified_checksum \o tail)
    ELSE LET data == << f.checksum_type >> \o BlockHandle_encode_to(f.metaindex_handle)
                     \o BlockHandle_encode_to(f.index_handle)
             used_bytes == Len(data)
         IN  IF FOOTER_SIZE - used_bytes - 12 < 0 THEN Err("panic")
             ELSE Ok(data \o Zeros(FOOTER_SIZE - used_bytes - 12)
                     \o U32LE(f.format_version) \o ROCKSDB_MAGIC_NUMBER)

\* decode_from_bytes, format version 6 and above.  input_offset - 5 and
\* footer_offset - metaindex_size are unchecked u64 subtractions: with overflow
\* checks the call panics, without them the offset wraps (to a number above
\* 2^31, kept as U32Cap).
FooterDecodeV6(data, input_offset, format_version, overflow_checks) ==
    LET n == Len(data)
    IN  IF n < 12 + 16 THEN Err("DataCorruption")
        ELSE IF n < 12 + 16 + 8 THEN Err("DataCorruption")
        ELSE IF Slice(data, n - 36, n - 28) # Zeros(8) THEN Err("Unsupported")
        ELSE IF input_offset < 5 /\ overflow_checks THEN Err("panic")
        ELSE IF n < 40 THEN Err("DataCorruption")
        ELSE LET metaindex_size == IF data[n - 36] >= 128 THEN U32Cap
                                   ELSE ReadU32LE(data, n - 40)
                 footer_offset == IF input_offset < 5 THEN U32Cap ELSE input_offset - 5
                 wraps == footer_offset # U32Cap /\ footer_offset < metaindex_size
             IN  IF wraps /\ overflow_checks THEN Err("panic")
                 ELSE IF n < 44 THEN Err("DataCorruption")
                 ELSE IF n < 48 THEN Err("DataCorruption")
                 ELSE IF n < 52 THEN Err("DataCorruption")
                 ELSE IF Slice(data, n - 52, n - 48) # EXTENDED_MAGIC THEN Err("DataCorruption")
                 ELSE IF n < 53 THEN Err("DataCorruption")
                 ELSE LET checksum_type == ChecksumType_try_from(data[n - 52])
                          base_context_checksum == Slice(data, n - 44, n - 40)
                          stored_checksum == Slice(data, n - 48, n - 44)
                          footer_copy == Slice(data, 0, 5) \o Zeros(4) \o Slice(data, 9, n)
                      IN  IF ~checksum_type.ok THEN checksum_type
                          ELSE IF wrapping_add(
                                      ChecksumType_calculate(checksum_type.v, footer_copy),
                                      checksum_modifier_for_context(base_context_checksum,
                                                                    input_offset))
                                  # stored_checksum
                               THEN Err("DataCorruption")
                          ELSE Ok(Footer(checksum_type.v,
                                      BlockHandle(
                                          IF wraps \/ footer_offset = U32Cap THEN U32Cap
                                          ELSE footer_offset - metaindex_size,
                                          metaindex_size),
                                      BlockHandle(0, 0), format_version,
                                      Some(base_context_checksum)))

\* the footer of two decoded handles
FooterOfHandles(checksum_type, metaindex_handle, index_handle, format_version) ==
    IF ~index_handle.ok THEN index_handle
    ELSE Ok(Footer(checksum_type, metaindex_handle, index_handle.v.handle, format_version, None))

\* the metaindex handle, then the index handle, decoded from the start of data
DecodeHandles(checksum_type, data, metaindex_handle, format_version) ==
    IF ~metaindex_handle.ok THEN metaindex_handle
    ELSE FooterOfHandles(checksum_type, metaindex_handle.v.handle,
             BlockHandle_decode_from(data, metaindex_handle.v.pos), format_version)

\* decode_from_bytes below version 6, once the first byte is tried as a checksum type
FooterDecodeTyped(data, typed, format_version) ==
    IF typed.ok /\ Len(data) - 12 < 1 THEN Err("panic")
    ELSE IF typed.ok
    THEN DecodeHandles(typed.v, Slice(data, 1, Len(data) - 12),
             BlockHandle_decode_from(Slice(data, 1, Len(data) - 12), 0), format_version)
    ELSE DecodeHandles(ChecksumType_CRC32c, Slice(data, 0, Len(data) - 12),
             BlockHandle_decode_from(Slice(data, 0, Len(data) - 12), 0), format_version)

\* decode_from_bytes, format versions below 6
FooterDecodeV1(data, format_version) ==
    FooterDecodeTyped(data,
        IF data[1] <= 127 /\ format_version >= 1
        THEN ChecksumType_try_from(data[1]) ELSE Err("none"),
        format_version)

\* decode_from_bytes once the format version is read
FooterDecodeVersion(data, input_offset, format_version, overflow_checks) ==
    IF format_version >= 6
    THEN FooterDecodeV6(data, input_offset, format_version, overflow_checks)
    ELSE FooterDecodeV1(data, format_version)

\* decode_from_bytes that does not compare the magic number
Footer_decode_from_bytes_AnyMagic(data, input_offset, overflow_checks) ==
    IF Len(data) < 12 THEN Err("InvalidFooterSize")
    ELSE FooterDecodeVersion(data, input_offset, ReadU32LE(data, Len(data) - 12),
                             overflow_checks)

\* Footer::decode_from_bytes
Footer_decode_from_bytes(data, input_offset, overflow_checks) ==
    IF Len(data) < 12 THEN Err("InvalidFooterSize")
    ELSE IF Slice(data, Len(data) - 8, Len(data)) = LEGACY_MAGIC_NUMBER
    THEN IF Len(data) # 48 THEN Err("InvalidFooterSize")
         ELSE DecodeHandles(ChecksumType_CRC32c, data, BlockHandle_decode_from(data, 0), 0)
    ELSE IF Slice(data, Len(data) - 8, Len(data)) # ROCKSDB_MAGIC_NUMBER
    THEN Err("InvalidMagicNumber")
    ELSE FooterDecodeVersion(data, input_offset, ReadU32LE(data, Len(data) - 12),
                             overflow_checks)

\* read_from that takes a file ending in ROCKSDB_MAGIC for whole from 49 bytes on
Footer_read_from_Needs49(bytes, overflow_checks) ==
    LET file_size == Len(bytes)
    IN  IF file_size < 48 THEN Err("FileTooSmall")
        ELSE IF Slice(bytes, file_size - 8, file_size) = ROCKSDB_MAGIC_NUMBER
             THEN LET footer_size == 49
                  IN  IF file_size < footer_size THEN Err("FileTooSmall")
                      ELSE Footer_decode_from_bytes(
                               Slice(bytes, file_size - footer_size, file_size),
                               file_size - footer_size, overflow_checks)
             ELSE IF Slice(bytes, file_size - 48, file_size - 40) = LEGACY_MAGIC_NUMBER
                  THEN Footer_decode_from_bytes(Slice(bytes, file_size - 48, file_size),
                                                file_size - 48, overflow_checks)
                  ELSE Err("InvalidMagicNumber")

\* Footer::read_from a file given as its bytes
Footer_read_from(bytes, overflow_checks) ==
    LET file_size == Len(bytes)
    IN  IF file_size < 48 THEN Err("FileTooSmall")
        ELSE IF Slice(bytes, file_size - 8, file_size) = ROCKSDB_MAGIC_NUMBER
             THEN LET footer_size == 53
                  IN  IF file_size < footer_size THEN Err("FileTooSmall")
                      ELSE Footer_decode_from_bytes(
                               Slice(bytes, file_size - footer_size, file_size),
                               file_size - footer_size, overflow_checks)
             ELSE IF Slice(bytes, file_size - 48, file_size - 40) = LEGACY_MAGIC_NUMBER
                  THEN Footer_decode_from_bytes(Slice(bytes, file_size - 48, file_size),
                                                file_size - 48, overflow_checks)
                  ELSE Err("InvalidMagicNumber")

----------------------------------------------------------------------------
(* SstReader and the table iterators. *)

\* a handle whose offset or size alone is past the end of the file
Beyond(handle, file_size) == handle.offset > file_size \/ handle.size > file_size

\* SstReader::open on the bytes of a file
SstReader_open(bytes, overflow_checks) ==
    LET footer == Footer_read_from(bytes, overflow_checks)
    IN  IF ~footer.ok THEN footer
        ELSE Ok([bytes |-> bytes, pos |-> Len(bytes), file_size |-> Len(bytes),
                 footer |-> footer.v])

\* SstReader::read_block without the seek: the bytes at the reader's position
SstReader_read_block_NoSeek(rd, handle) ==
    IF Beyond(handle, rd.file_size) \/ handle.offset + handle.size > rd.file_size
    THEN Err("InvalidBlockHandle")
    ELSE IF rd.pos + handle.size > Len(rd.bytes) THEN Err("Io")
    ELSE Ok(Slice(rd.bytes, rd.pos, rd.pos + handle.size))

\* the reader after read_block: the stream stands behind the bytes it read
SstReader_read_block_reader(rd, handle) ==
    IF Beyond(handle, rd.file_size) \/ handle.offset + handle.size > rd.file_size
    THEN rd
    ELSE [rd EXCEPT !.pos = handle.offset + handle.size]

\* SstReader::read_block
SstReader_read_block(rd, handle) ==
    IF Beyond(handle, rd.file_size) \/ handle.offset + handle.size > rd.file_size
    THEN Err("InvalidBlockHandle")
    ELSE Ok(Slice(rd.bytes, handle.offset, handle.offset + handle.size))

\* read_data_block_reader once the block is read
ReaderOfBlock(block_data, compression_type, lenient) ==
    IF ~block_data.ok THEN block_data
    ELSE DataBlockReader_new(block_data.v, compression_type, lenient)

\* SstReader::read_data_block_reader
SstReader_read_data_block_reader(rd, handle, compression_type, lenient) ==
    ReaderOfBlock(SstReader_read_block(rd, handle), compression_type, lenient)

\* SstTableIterator::new once the handles are listed
NewFromHandles(rd, index_block, all_block_handles, compression_type, lenient) ==
    IF ~all_block_handles.ok THEN all_block_handles
    ELSE Ok([sst_reader |-> rd,
             index_block |-> index_block,
             current_data_block |-> None,
             current_block_index |-> 0,
             all_block_handles |-> all_block_handles.v,
             compression_type |-> compression_type,
             lenient |-> lenient,
             valid |-> FALSE])

\* SstTableIterator::new once the index block is parsed
NewFromIndexBlock(rd, index_block, compression_type, lenient) ==
    IF ~index_block.ok THEN index_block
    ELSE NewFromHandles(rd, index_block.v, IndexBlock_get_all_block_handles(index_block.v),
                        compression_type, lenient)

\* SstTableIterator::new once the index block is read
NewFromIndexData(rd, index_data, compression_type, lenient) ==
    IF ~index_data.ok THEN index_data
    ELSE NewFromIndexBlock(rd, IndexBlock_new(index_data.v, CompressionType_None, lenient),
                           compression_type, lenient)

\* SstTableIterator::new; lenient is the behaviour of the build's decoders
SstTableIterator_new(rd, compression_type, lenient) ==
    NewFromIndexData(rd, SstReader_read_block(rd, rd.footer.index_handle),
                     compression_type, lenient)

\* load_data_block once the block's reader is made
LoadedBlock(it, block_index, data_block_reader) ==
    IF ~data_block_reader.ok THEN [it |-> it, out |-> data_block_reader]
    ELSE [it |-> [it EXCEPT !.current_data_block = Some(data_block_reader.v),
                            !.current_block_index = block_index],
          out |-> Ok(TRUE)]

\* SstTableIterator::load_data_block: [it |-> the iterator after the call,
\* out |-> Ok or the error]
SstTableIterator_load_data_block(it, block_index) ==
    IF block_index >= Len(it.all_block_handles)
    THEN [it |-> [it EXCEPT !.current_data_block = None, !.valid = FALSE], out |-> Ok(TRUE)]
    ELSE LoadedBlock(it, block_index,
             SstReader_read_data_block_reader(it.sst_reader,
                 it.all_block_handles[block_index + 1], it.compression_type, it.lenient))

\* the iterator with its data block reader at data_block, valid as the reader is
AtReader(it, data_block) ==
    [it EXCEPT !.current_data_block = Some(data_block),
               !.valid = DataBlockReader_valid(data_block)]

\* seek_to_first once the first block is loaded
FirstOfLoaded(loaded) ==
    IF ~loaded.out.ok THEN loaded
    ELSE IF loaded.it.current_data_block.some
    THEN [it |-> AtReader(loaded.it,
                     DataBlockReader_seek_to_first(loaded.it.current_data_block.v)),
          out |-> Ok(TRUE)]
    ELSE [it |-> [loaded.it EXCEPT !.valid = FALSE], out |-> Ok(TRUE)]

\* SstTableIterator::seek_to_first
SstTableIterator_seek_to_first(it) ==
    IF it.all_block_handles = <<>>
    THEN [it |-> [it EXCEPT !.valid = FALSE], out |-> Ok(TRUE)]
    ELSE FirstOfLoaded(SstTableIterator_load_data_block(it, 0))

\* n calls of next on a data block reader
RECURSIVE DataBlockReaderSkip(_, _)
DataBlockReaderSkip(r, n) ==
    IF n <= 0 THEN r ELSE DataBlockReaderSkip(DataBlockReader_next(r).r, n - 1)

\* seek_to_last once the last block is loaded: the reader is run to its end,
\* then moved to the first entry and on by one less than the number of entries
LastOfLoaded(loaded) ==
    IF ~loaded.out.ok THEN loaded
    ELSE IF ~loaded.it.current_data_block.some
    THEN [it |-> [loaded.it EXCEPT !.valid = FALSE], out |-> Ok(TRUE)]
    ELSE IF Len(loaded.it.current_data_block.v.entries) > 0
    THEN [it |-> AtReader(loaded.it,
                     DataBlockReaderSkip(
                         DataBlockReader_seek_to_first(loaded.it.current_data_block.v),
                         Len(loaded.it.current_data_block.v.entries) - 1)),
          out |-> Ok(TRUE)]
    ELSE [it |-> [loaded.it EXCEPT !.valid = FALSE], out |-> Ok(TRUE)]

\* SstTableIterator::seek_to_last
SstTableIterator_seek_to_last(it) ==
    IF it.all_block_handles = <<>>
    THEN [it |-> [it EXCEPT !.valid = FALSE], out |-> Ok(TRUE)]
    ELSE LastOfLoaded(SstTableIterator_load_data_block(it, Len(it.all_block_handles) - 1))

\* the position of the first handle equal to handle, 0 when there is none
HandlePosition(all_block_handles, handle) ==
    IF \A i \in 1..Len(all_block_handles) : all_block_handles[i] # handle THEN 0
    ELSE Least({i \in 1..Len(all_block_handles) : all_block_handles[i] = handle})

\* the iterator after the data block reader's seek
AfterBlockSeek(it, found) ==
    [it EXCEPT !.current_data_block = Some(found.r), !.valid = found.out]

\* seek once the block is loaded
SeekInLoaded(loaded, target_key) ==
    IF ~loaded.out.ok THEN loaded
    ELSE IF loaded.it.current_data_block.some
    THEN [it |-> AfterBlockSeek(loaded.it,
                     DataBlockReader_seek(loaded.it.current_data_block.v, target_key)),
          out |-> Ok(TRUE)]
    ELSE [it |-> [loaded.it EXCEPT !.valid = FALSE], out |-> Ok(TRUE)]

\* seek once the index block named the handle, at position in all_block_handles
SeekAtPosition(it, position, target_key) ==
    IF position = 0 THEN [it |-> [it EXCEPT !.valid = FALSE], out |-> Ok(TRUE)]
    ELSE SeekInLoaded(SstTableIterator_load_data_block(it, position - 1), target_key)

\* seek once the index block is searched
SeekWithHandle(it, block_handle, target_key) ==
    IF ~block_handle.ok THEN [it |-> it, out |-> block_handle]
    ELSE IF ~block_handle.v.some
    THEN [it |-> [it EXCEPT !.valid = FALSE], out |-> Ok(TRUE)]
    ELSE SeekAtPosition(it, HandlePosition(it.all_block_handles, block_handle.v.v), target_key)

\* SstTableIterator::seek
SstTableIterator_seek(it, target_key) ==
    SeekWithHandle(it, IndexBlock_find_block_for_key(it.index_block, target_key), target_key)

\* next once the following block is loaded
NextInLoaded(loaded) ==
    IF ~loaded.out.ok THEN loaded
    ELSE [it |-> AtReader(loaded.it,
                     DataBlockReader_seek_to_first(loaded.it.current_data_block.v)),
          out |-> Ok(loaded.it.current_data_block.v.entries # <<>>)]

\* next once the data block reader has moved
NextAfterStep(it, stepped) ==
    IF stepped.out.some /\ DataBlockReader_valid(stepped.r)
    THEN [it |-> [it EXCEPT !.current_data_block = Some(stepped.r)], out |-> Ok(TRUE)]
    ELSE IF it.current_block_index + 1 < Len(it.all_block_handles)
    THEN NextInLoaded(SstTableIterator_load_data_block(
                          [it EXCEPT !.current_data_block = Some(stepped.r)],
                          it.current_block_index + 1))
    ELSE [it |-> [it EXCEPT !.current_data_block = Some(stepped.r), !.valid = FALSE],
          out |-> Ok(FALSE)]

\* SstTableIterator::next: out is Ok(moved) or the error
SstTableIterator_next(it) ==
    IF ~it.valid THEN [it |-> it, out |-> Ok(FALSE)]
    ELSE IF ~it.current_data_block.some
    THEN [it |-> [it EXCEPT !.valid = FALSE], out |-> Ok(FALSE)]
    ELSE NextAfterStep(it, DataBlockReader_next(it.current_data_block.v))

\* prev once the block before the current one is loaded: its reader is run to
\* the end, then moved to the first entry and on by one less than the number of
\* entries; a block without entries leaves the iterator invalid
PrevInLoaded(loaded) ==
    IF ~loaded.out.ok THEN loaded
    ELSE IF loaded.it.current_data_block.some
            /\ Len(loaded.it.current_data_block.v.entries) > 0
    THEN [it |-> AtReader(loaded.it,
                     DataBlockReaderSkip(
                         DataBlockReader_seek_to_first(loaded.it.current_data_block.v),
                         Len(loaded.it.current_data_block.v.entries) - 1)),
          out |-> Ok(TRUE)]
    ELSE [it |-> [loaded.it EXCEPT !.valid = FALSE], out |-> Ok(FALSE)]

\* SstTableIterator::prev: out is Ok(moved) or the error
SstTableIterator_prev(it) ==
    IF ~it.valid THEN [it |-> it, out |-> Ok(FALSE)]
    ELSE IF it.current_block_index > 0
    THEN PrevInLoaded(SstTableIterator_load_data_block(it, it.current_block_index - 1))
    ELSE [it |-> [it EXCEPT !.valid = FALSE], out |-> Ok(FALSE)]

\* SstTableIterator::valid
SstTableIterator_valid(it) == it.valid

\* SstTableIterator::key
SstTableIterator_key(it) ==
    IF it.valid /\ it.current_data_block.some
    THEN DataBlockReader_key(it.current_data_block.v)
    ELSE None

\* SstTableIterator::value
SstTableIterator_value(it) ==
    IF it.valid /\ it.current_data_block.some
    THEN DataBlockReader_value(it.current_data_block.v)
    ELSE None

\* the pair collect_all pushes at a position: none where key() or value() is None
EntryHere(key, value) ==
    IF key.some /\ value.some THEN << [key |-> key.v, value |-> value.v] >> ELSE <<>>

\* here followed by what the rest of the loop collects
CollectedWith(here, rest) == IF ~rest.ok THEN rest ELSE Ok(here \o rest.v)

\* the loop of SstEntryIterator::collect_all
RECURSIVE CollectLoop(_)
RECURSIVE CollectNext(_, _)
CollectNext(here, moved) ==
    IF ~moved.out.ok THEN moved.out
    ELSE IF ~moved.out.v THEN Ok(here)
    ELSE CollectedWith(here, CollectLoop(moved.it))

CollectLoop(it) ==
    IF ~SstTableIterator_valid(it) THEN Ok(<<>>)
    ELSE CollectNext(EntryHere(SstTableIterator_key(it), SstTableIterator_value(it)),
                     SstTableIterator_next(it))

\* collect_all once the iterator is at the first entry
CollectFrom(first) == IF ~first.out.ok THEN first.out ELSE CollectLoop(first.it)

\* SstEntryIterator::collect_all
SstEntryIterator_collect_all(it) == CollectFrom(SstTableIterator_seek_to_first(it))

\* find once the iterator has sought the key
FoundAt(sought, target_key) ==
    IF ~sought.out.ok THEN sought.out
    ELSE IF /\ SstTableIterator_valid(sought.it)
            /\ SstTableIterator_key(sought.it) = Some(target_key)
    THEN Ok(SstTableIterator_value(sought.it))
    ELSE Ok(None)

\* SstEntryIterator::find: Ok(Some(value)), Ok(None) or the error
SstEntryIterator_find(it, target_key) == FoundAt(SstTableIterator_seek(it, target_key), target_key)

\* SstEntryIterator::new, then collect_all
CollectedBy(it) ==
    [new |-> IF it.ok THEN Ok(TRUE) ELSE it,
     collect_all |-> IF it.ok THEN SstEntryIterator_collect_all(it.v) ELSE it]

----------------------------------------------------------------------------
(* Inputs. *)

\* keys: the empty key, keys with and without a common prefix
Keys == { <<>>, <<97>>, <<97, 97>>, <<97, 98>>, <<98>> }
\* value payloads
Values == { <<>>, <<1>>, <<0, 7>> }
\* block handles, one with two-byte varints
Handles == { BlockHandle(0, 20), BlockHandle(100, 200) }

\* the strictly increasing key sequences of length n
SortedKeySeqs(n) ==
    {ks \in [1..n -> Keys] : \A i \in 1..(n - 1) : LexLess(ks[i], ks[i + 1])}

\* the variables a specification does not use
WriterUnused ==
    /\ options = None /\ writer = None /\ data_block_builder = None
    /\ index_block_builder = None /\ offset = 0 /\ num_entries = 0
    /\ last_key = <<>> /\ finished = FALSE /\ pending_index_entry = None
    /\ file = <<>> /\ result = None /\ accepted = <<>> /\ blocks = <<>>
    /\ written_footer = None /\ sst_reader = None /\ iterator = None

CodecUnused == pc = "unused" /\ arg = None /\ enc = None /\ dec = None

----------------------------------------------------------------------------
(* SstFileWriter, as a record of its fields; file is the content of the file *)
(* it writes, accepted and blocks record what it took and what it flushed.   *)

\* bound on the entries a writer is given
MaxAdds == 2

EntryType_Put == 0
EntryType_Delete == 1
EntryType_Merge == 2

\* the checksum type the writer's blocks and footer carry
WriterChecksumType == ChecksumType_CRC32c

\* SstFileWriter::create
SstFileWriter_create(opts) ==
    [options |-> opts,
     writer |-> None,
     data_block_builder |-> DataBlockBuilder_new(opts.block_restart_interval),
     index_block_builder |-> IndexBlockBuilder_new(opts.block_restart_interval),
     offset |-> 0,
     num_entries |-> 0,
     last_key |-> <<>>,
     finished |-> FALSE,
     pending_index_entry |-> None,
     file |-> <<>>,
     accepted |-> <<>>,
     blocks |-> <<>>,
     written_footer |-> None]

\* SstFileWriter::open without the test for a file that is already open
SstFileWriter_open_Again(w) ==
    [w |-> [w EXCEPT !.writer = Some("file"), !.file = <<>>, !.offset = 0,
                     !.num_entries = 0, !.last_key = <<>>, !.finished = FALSE],
     out |-> Ok(TRUE)]

\* SstFileWriter::open: [w |-> the writer after the call, out |-> Ok or the error]
SstFileWriter_open(w) ==
    IF w.writer.some THEN [w |-> w, out |-> Err("InvalidArgument")]
    ELSE [w |-> [w EXCEPT !.writer = Some("file"), !.file = <<>>, !.offset = 0,
                          !.num_entries = 0, !.last_key = <<>>, !.finished = FALSE],
          out |-> Ok(TRUE)]

\* encode_entry_value with the tag after the value
SstFileWriter_encode_entry_value_TagLast(value, entry_type) == value \o << entry_type >>

\* SstFileWriter::encode_entry_value
SstFileWriter_encode_entry_value(value, entry_type) == << entry_type >> \o value

\* create_empty_metaindex_block with a restart count of 0 and no restart point
SstFileWriter_create_empty_metaindex_block_NoRestarts ==
    U32LE(0) \o << CompressionType_None >> \o U32LE(0)

\* SstFileWriter::create_empty_metaindex_block
SstFileWriter_create_empty_metaindex_block ==
    U32LE(0) \o U32LE(1) \o << CompressionType_None >> \o U32LE(0)

\* flush_data_block once the block is finished: the block is written, the
\* pending index entry is committed and this block's entry takes its place
FlushFinishedBlock(w, block_data) ==
    IF ~block_data.out.ok
    THEN [w |-> [w EXCEPT !.data_block_builder = block_data.b], out |-> block_data.out]
    ELSE [w |-> [w EXCEPT
                   !.file = @ \o block_data.out.v,
                   !.offset = @ + Len(block_data.out.v),
                   !.index_block_builder =
                       IF w.pending_index_entry.some
                       THEN IndexBlockBuilder_add_index_entry(@,
                                w.pending_index_entry.v.key,
                                w.pending_index_entry.v.block_handle)
                       ELSE @,
                   !.pending_index_entry =
                       Some([key |-> w.last_key,
                             block_handle |-> BlockHandle(w.offset, Len(block_data.out.v))]),
                   !.data_block_builder = DataBlockBuilder_reset(block_data.b),
                   !.blocks = Append(@, [key |-> w.last_key,
                                         block_handle |->
                                             BlockHandle(w.offset, Len(block_data.out.v)),
                                         upto |-> w.num_entries])],
          out |-> Ok(TRUE)]

\* SstFileWriter::flush_data_block
SstFileWriter_flush_data_block(w) ==
    IF DataBlockBuilder_empty(w.data_block_builder) THEN [w |-> w, out |-> Ok(TRUE)]
    ELSE FlushFinishedBlock(w,
             DataBlockBuilder_finish(w.data_block_builder, w.options.compression,
                                     WriterChecksumType, None, None))

\* add_entry once the full block, if any, is flushed
AddToBlock(flushed, key, encoded_value) ==
    IF ~flushed.out.ok THEN flushed
    ELSE [w |-> [flushed.w EXCEPT
                   !.data_block_builder = DataBlockBuilder_add(@, key, encoded_value),
                   !.last_key = key,
                   !.num_entries = @ + 1,
                   !.accepted = Append(@, [key |-> key, value |-> encoded_value])],
          out |-> Ok(TRUE)]

\* add_entry as it would be if the block were flushed after the add
SstFileWriter_add_entry_FlushAfterAdd(w, key, value, entry_type) ==
    IF w.finished THEN [w |-> w, out |-> Err("InvalidArgument")]
    ELSE IF ~w.writer.some THEN [w |-> w, out |-> Err("InvalidArgument")]
    ELSE IF w.last_key # <<>> /\ LexLeq(key, w.last_key)
    THEN [w |-> w, out |-> Err("InvalidArgument")]
    ELSE LET added == AddToBlock([w |-> w, out |-> Ok(TRUE)], key,
                                 SstFileWriter_encode_entry_value(value, entry_type))
         IN  IF DataBlockBuilder_size_estimate(added.w.data_block_builder)
                    >= w.options.block_size
             THEN SstFileWriter_flush_data_block(added.w)
             ELSE added

\* add_entry that records the key before it checks the order
SstFileWriter_add_entry_KeyRecordedFirst(w, key, value, entry_type) ==
    IF w.finished THEN [w |-> w, out |-> Err("InvalidArgument")]
    ELSE IF ~w.writer.some THEN [w |-> w, out |-> Err("InvalidArgument")]
    ELSE IF w.last_key # <<>> /\ LexLeq(key, w.last_key)
    THEN [w |-> [w EXCEPT !.last_key = key], out |-> Err("InvalidArgument")]
    ELSE AddToBlock(IF /\ DataBlockBuilder_size_estimate(w.data_block_builder)
                             >= w.options.block_size
                       /\ ~DataBlockBuilder_empty(w.data_block_builder)
                    THEN SstFileWriter_flush_data_block(w)
                    ELSE [w |-> w, out |-> Ok(TRUE)],
                    key, SstFileWriter_encode_entry_value(value, entry_type))

\* SstFileWriter::add_entry
SstFileWriter_add_entry(w, key, value, entry_type) ==
    IF w.finished THEN [w |-> w, out |-> Err("InvalidArgument")]
    ELSE IF ~w.writer.some THEN [w |-> w, out |-> Err("InvalidArgument")]
    ELSE IF w.last_key # <<>> /\ LexLeq(key, w.last_key)
    THEN [w |-> w, out |-> Err("InvalidArgument")]
    ELSE AddToBlock(IF /\ DataBlockBuilder_size_estimate(w.data_block_builder)
                             >= w.options.block_size
                       /\ ~DataBlockBuilder_empty(w.data_block_builder)
                    THEN SstFileWriter_flush_data_block(w)
                    ELSE [w |-> w, out |-> Ok(TRUE)],
                    key, SstFileWriter_encode_entry_value(value, entry_type))

\* SstFileWriter::put
SstFileWriter_put(w, key, value) == SstFileWriter_add_entry(w, key, value, EntryType_Put)

\* SstFileWriter::merge
SstFileWriter_merge(w, key, value) == SstFileWriter_add_entry(w, key, value, EntryType_Merge)

\* SstFileWriter::delete
SstFileWriter_delete(w, key) == SstFileWriter_add_entry(w, key, <<>>, EntryType_Delete)

\* the Footer of a finish that places the metaindex block at the writer's offset
FinishedFooter_MetaindexAtOffset(w, index_block_data, metaindex_data) ==
    Footer(WriterChecksumType,
           BlockHandle(w.offset, Len(metaindex_data)),
           BlockHandle(w.offset, Len(index_block_data)),
           w.options.format_version, None)

\* the Footer finish builds: the metaindex block follows the index block, which
\* starts at the writer's offset
FinishedFooter(w, index_block_data, metaindex_data) ==
    Footer(WriterChecksumType,
           BlockHandle(w.offset + Len(index_block_data), Len(metaindex_data)),
           BlockHandle(w.offset, Len(index_block_data)),
           w.options.format_version, None)

\* finish once the footer is encoded: index block, metaindex block and footer
\* are written; the offset advances over the two blocks
FinishWrite(w, index_block_data, metaindex_data, footer_data) ==
    IF ~footer_data.ok THEN [w |-> w, out |-> footer_data]
    ELSE [w |-> [w EXCEPT
                   !.file = @ \o index_block_data \o metaindex_data \o footer_data.v,
                   !.written_footer = Some(FinishedFooter(w, index_block_data, metaindex_data)),
                   !.offset = @ + Len(index_block_data) + Len(metaindex_data),
                   !.finished = TRUE],
          out |-> Ok(TRUE)]

\* finish once the index block is finished: the handles and the footer
FinishFooter(w, index_block_data, metaindex_data) ==
    IF ~index_block_data.out.ok
    THEN [w |-> [w EXCEPT !.index_block_builder = index_block_data.b],
          out |-> index_block_data.out]
    ELSE FinishWrite([w EXCEPT !.index_block_builder = index_block_data.b],
             index_block_data.out.v, metaindex_data,
             Footer_encode_to_bytes(
                 FinishedFooter(w, index_block_data.out.v, metaindex_data),
                 w.offset + Len(index_block_data.out.v) + Len(metaindex_data)))

\* finish once the last data block is flushed
FinishIndex(flushed) ==
    IF ~flushed.out.ok THEN flushed
    ELSE FinishFooter(flushed.w,
             IndexBlockBuilder_finish(flushed.w.index_block_builder, CompressionType_None,
                                      WriterChecksumType, None, None),
             SstFileWriter_create_empty_metaindex_block)

\* SstFileWriter::finish
SstFileWriter_finish(w) ==
    IF w.finished THEN [w |-> w, out |-> Err("InvalidArgument")]
    ELSE IF ~w.writer.some THEN [w |-> w, out |-> Err("InvalidArgument")]
    ELSE FinishIndex(IF ~DataBlockBuilder_empty(w.data_block_builder)
                     THEN SstFileWriter_flush_data_block(w)
                     ELSE [w |-> w, out |-> Ok(TRUE)])

\* SstFileWriter::file_size
SstFileWriter_file_size(w) == w.offset

----------------------------------------------------------------------------
(* Spec: one writer, from create to finish, and a reader of the file it wrote. *)

\* the options a writer is created with
WriterOptions ==
    [compression : {CompressionType_None, CompressionType_Snappy},
     block_size : {1, 4096},
     block_restart_interval : {2},
     format_version : {5, 6}]

\* keys and payloads the writer is given
WriterKeys == { <<>>, <<97>>, <<97, 97>> }
WriterValues == { <<>>, <<7>> }

\* the writer the variables hold
Self ==
    [options |-> options, writer |-> writer, data_block_builder |-> data_block_builder,
     index_block_builder |-> index_block_builder, offset |-> offset,
     num_entries |-> num_entries, last_key |-> last_key, finished |-> finished,
     pending_index_entry |-> pending_index_entry, file |-> file, accepted |-> accepted,
     blocks |-> blocks, written_footer |-> written_footer]

\* the variables take the fields of the writer w
Becomes(w) ==
    /\ options' = w.options /\ writer' = w.writer
    /\ data_block_builder' = w.data_block_builder
    /\ index_block_builder' = w.index_block_builder
    /\ offset' = w.offset /\ num_entries' = w.num_entries /\ last_key' = w.last_key
    /\ finished' = w.finished /\ pending_index_entry' = w.pending_index_entry
    /\ file' = w.file /\ accepted' = w.accepted /\ blocks' = w.blocks
    /\ written_footer' = w.written_footer

\* a call on the writer: its effect on the fields and the result the caller sees
Call(name, after) ==
    /\ Becomes(after.w)
    /\ result' = Some([call |-> name, out |-> after.out])
    /\ UNCHANGED <<readerVars, codecVars>>

\* an add is explored while the writer holds fewer than MaxAdds entries, or is refused
Within(after) == num_entries < MaxAdds \/ ~after.out.ok

Init ==
    /\ \E opts \in WriterOptions :
          LET w == SstFileWriter_create(opts)
          IN  /\ options = w.options /\ writer = w.writer
              /\ data_block_builder = w.data_block_builder
              /\ index_block_builder = w.index_block_builder
              /\ offset = w.offset /\ num_entries = w.num_entries /\ last_key = w.last_key
              /\ finished = w.finished /\ pending_index_entry = w.pending_index_entry
              /\ file = w.file /\ accepted = w.accepted /\ blocks = w.blocks
              /\ written_footer = w.written_footer
    /\ result = None
    /\ sst_reader = None
    /\ iterator = None
    /\ CodecUnused

Open ==
    /\ sst_reader = None
    /\ Call("open", SstFileWriter_open(Self))

Put ==
    /\ sst_reader = None
    /\ \E key \in WriterKeys, value \in WriterValues :
          LET after == SstFileWriter_put(Self, key, value)
          IN  Within(after) /\ Call("put", after)

Merge ==
    /\ sst_reader = None
    /\ \E key \in WriterKeys :
          LET after == SstFileWriter_merge(Self, key, << 7 >>)
          IN  Within(after) /\ Call("merge", after)

Delete ==
    /\ sst_reader = None
    /\ \E key \in WriterKeys :
          LET after == SstFileWriter_delete(Self, key)
          IN  Within(after) /\ Call("delete", after)

Finish ==
    /\ sst_reader = None
    /\ Call("finish", SstFileWriter_finish(Self))

\* SstReader::open on the finished file
OpenReader ==
    /\ finished
    /\ sst_reader = None
    /\ \E overflow_checks \in BOOLEAN :
          sst_reader' = Some(SstReader_open(file, overflow_checks))
    /\ UNCHANGED <<writerVars, iterator, codecVars>>

\* SstEntryIterator::new on the reader, then collect_all
CollectAll ==
    /\ sst_reader.some /\ sst_reader.v.ok
    /\ iterator = None
    /\ \E lenient \in BOOLEAN :
          iterator' = Some(CollectedBy(SstTableIterator_new(sst_reader.v.v, options.compression,
                                                            lenient)))
    /\ UNCHANGED <<writerVars, sst_reader, codecVars>>

Next ==
    \/ Open
    \/ Put
    \/ Merge
    \/ Delete
    \/ Finish
    \/ OpenReader
    \/ CollectAll

Spec == Init /\ [][Next]_vars

\* the index block that holds one entry per flushed data block
RECURSIVE IndexOfBlocks(_, _, _)
IndexOfBlocks(b, entries, i) ==
    IF i > Len(entries) THEN b
    ELSE IndexOfBlocks(IndexBlockBuilder_add_index_entry(b, entries[i].key,
                                                         entries[i].block_handle),
                       entries, i + 1)

\* the end of the last data block in the file
DataEnd ==
    IF blocks = <<>> THEN 0
    ELSE blocks[Len(blocks)].block_handle.offset + blocks[Len(blocks)].block_handle.size

\* the bytes of the file between the data blocks and the metaindex block
WrittenIndexBlock == Slice(file, DataEnd, offset - Len(SstFileWriter_create_empty_metaindex_block))

\* C1: once finish succeeded, the file opens through SstReader and collect_all
\* returns the accepted entries, in order, each with its type byte and payload.
C1_SstRoundTrip ==
    /\ sst_reader.some => sst_reader.v.ok
    /\ iterator.some => iterator.v.collect_all = Ok(accepted)

\* C2: the keys accepted into the file form a strictly increasing sequence.
C2_KeysStrictlyIncrease ==
    \A i \in 1..(Len(accepted) - 1) : LexLess(accepted[i].key, accepted[i + 1].key)

\* C20 as claimed: after every successful put, delete or merge, the data block
\* builder's size_estimate() is below block_size: a block that reached
\* block_size has already been finished and written.
C20_FlushThreshold ==
    (result.some /\ result.v.call \in {"put", "merge", "delete"} /\ result.v.out.ok) =>
        DataBlockBuilder_size_estimate(data_block_builder) < options.block_size

\* the data block builder is due for a flush
BlockIsFull ==
    /\ DataBlockBuilder_size_estimate(data_block_builder) >= options.block_size
    /\ ~DataBlockBuilder_empty(data_block_builder)

\* C20 amended: the threshold is tested before the add, not after it.  A
\* successful put, delete or merge that finds the builder non-empty with
\* size_estimate() >= block_size first writes that block to the file and records
\* (last key, handle) as the pending index entry, then adds the entry to the
\* emptied builder; any other successful add writes nothing and adds the entry
\* to the builder as it is.
C20_FlushBeforeAdd ==
    [][num_entries' = num_entries + 1 =>
          IF BlockIsFull
          THEN /\ Len(file') > Len(file)
               /\ offset' = Len(file')
               /\ pending_index_entry' =
                      Some([key |-> last_key,
                            block_handle |-> BlockHandle(offset, Len(file') - Len(file))])
               /\ blocks' = Append(blocks, [key |-> last_key,
                                            block_handle |->
                                                pending_index_entry'.v.block_handle,
                                            upto |-> num_entries])
               /\ data_block_builder' =
                      DataBlockBuilder_add(
                          DataBlockBuilder_new(options.block_restart_interval),
                          accepted'[num_entries'].key, accepted'[num_entries'].value)
          ELSE /\ file' = file /\ offset' = offset /\ blocks' = blocks
               /\ pending_index_entry' = pending_index_entry
               /\ data_block_builder' =
                      DataBlockBuilder_add(data_block_builder,
                          accepted'[num_entries'].key, accepted'[num_entries'].value)]_vars

\* a put wrote the full block before it added its entry, and left the builder
\* at or over block_size again
C20_Witness ==
    /\ result.some /\ result.v.call = "put" /\ result.v.out.ok
    /\ ~finished /\ num_entries = 2 /\ Len(blocks) = 1 /\ blocks[1].upto = 1
    /\ pending_index_entry.some
    /\ DataBlockBuilder_size_estimate(data_block_builder) >= options.block_size

\* C3: after finish succeeded, the index block in the file is the block that
\* holds one entry per data block written, in file order, with that block's
\* handle.
C3_IndexHoldsEveryBlock ==
    finished =>
        WrittenIndexBlock =
            IndexBlockBuilder_finish(
                IndexOfBlocks(IndexBlockBuilder_new(options.block_restart_interval), blocks, 1),
                CompressionType_None, WriterChecksumType, None, None).out.v

\* the index entries the writer has committed to its index block builder: those
\* of the flushed blocks but the last, whose entry is pending
CommittedIndexEntries ==
    IF pending_index_entry.some THEN SubSeq(blocks, 1, Len(blocks) - 1) ELSE blocks

\* the positions, among the accepted entries, of the entries of the i-th flushed block
BlockEntries(i) == ((IF i = 1 THEN 0 ELSE blocks[i - 1].upto) + 1)..blocks[i].upto

\* C12: the key of every committed index entry is the last key added to the
\* data block its handle points at, is at or past every key of that block and
\* is before the first key of the next data block.
C12_IndexSeparator ==
    \A i \in 1..Len(CommittedIndexEntries) :
        /\ CommittedIndexEntries[i].key = accepted[blocks[i].upto].key
        /\ \A j \in BlockEntries(i) : LexLeq(accepted[j].key, CommittedIndexEntries[i].key)
        /\ i < Len(blocks) =>
              LexLess(CommittedIndexEntries[i].key, accepted[blocks[i].upto + 1].key)

\* the index block builder holds the committed entries and nothing else
CommittedAreInBuilder ==
    ~finished =>
        index_block_builder =
            IndexOfBlocks(IndexBlockBuilder_new(options.block_restart_interval),
                          CommittedIndexEntries, 1)

\* the data block handles are contiguous from the start of the file, in the
\* order the blocks were written, and none is empty
DataBlocksContiguous ==
    \A i \in 1..Len(blocks) :
        /\ blocks[i].block_handle.offset =
              (IF i = 1 THEN 0
               ELSE blocks[i - 1].block_handle.offset + blocks[i - 1].block_handle.size)
        /\ blocks[i].block_handle.size > 0

\* the finished file: index block, metaindex block and footer follow the data
\* blocks in that order, each where its handle says, and the offset is where
\* the footer starts
FinishedLayout ==
    /\ written_footer.some
    /\ written_footer.v.index_handle.offset = DataEnd
    /\ written_footer.v.index_handle.size > 0
    /\ written_footer.v.metaindex_handle.offset =
          written_footer.v.index_handle.offset + written_footer.v.index_handle.size
    /\ written_footer.v.metaindex_handle.size = Len(SstFileWriter_create_empty_metaindex_block)
    /\ offset = written_footer.v.metaindex_handle.offset + written_footer.v.metaindex_handle.size
    /\ Slice(file, written_footer.v.metaindex_handle.offset, offset)
          = SstFileWriter_create_empty_metaindex_block
    /\ Footer_encode_to_bytes(written_footer.v, offset) = Ok(Slice(file, offset, Len(file)))
    /\ Len(file) > offset

\* C13: the data block handles are contiguous from offset 0; until finish the
\* offset is the length of the file; finish writes the index block, the
\* metaindex block and the footer after the data blocks, in that order, with
\* handles that give each block's position and length, the offset ending where
\* the footer starts; and the offset never decreases.
C13_FinishLayout ==
    /\ [](/\ DataBlocksContiguous
          /\ ~finished => (offset = Len(file) /\ offset = DataEnd /\ written_footer = None)
          /\ finished => FinishedLayout)
    /\ [][offset' >= offset]_vars

\* a version 6 file with two data blocks was finished
C13_Witness ==
    /\ finished /\ Len(blocks) = 2 /\ options.format_version = 6
    /\ written_footer.some
    /\ written_footer.v.index_handle.offset = DataEnd
    /\ Len(file) = offset + FOOTER_SIZE + 4

\* a call made in a state that does not allow it
WrongState(call) ==
    \/ call \in {"put", "merge", "delete", "finish"} /\ (~writer.some \/ finished)
    \/ call = "open" /\ writer.some

\* C4: put, delete, merge and finish on a writer that has no file open or has
\* finished, and open on a writer that has a file open, return InvalidArgument
\* and leave offset, entry count, last key and file as they were.
C4_WrongStateRejected ==
    [][(result'.some /\ UNCHANGED readerVars /\ WrongState(result'.v.call)) =>
          /\ result'.v.out = Err("InvalidArgument")
          /\ UNCHANGED <<offset, num_entries, last_key, file>>]_vars

\* a put was refused after a finish that wrote a file with entries in it
C4_Witness ==
    /\ finished /\ num_entries = 2 /\ offset > 0 /\ file # <<>>
    /\ result = Some([call |-> "put", out |-> Err("InvalidArgument")])

----------------------------------------------------------------------------
(* BlockSpec: one block built from a list of entries and parsed back. *)

BlockInputs ==
    UNION {
        {[kind |-> "data", restart_interval |-> R, compression |-> c, checksum_type |-> ct,
          entries |-> [i \in 1..n |-> [key |-> ks[i], value |-> vs[i]]]] :
            ks \in SortedKeySeqs(n), vs \in [1..n -> Values],
            R \in 1..MaxRestartInterval,
            c \in {CompressionType_None, CompressionType_Snappy, CompressionType_LZ4},
            ct \in {ChecksumType_CRC32c, ChecksumType_XXH3}}
        \cup
        {[kind |-> "index", restart_interval |-> R, compression |-> CompressionType_None,
          checksum_type |-> ChecksumType_CRC32c,
          entries |-> [i \in 1..n |-> [key |-> ks[i], block_handle |-> hs[i]]]] :
            ks \in SortedKeySeqs(n), hs \in [1..n -> Handles],
            R \in 1..MaxRestartInterval}
        : n \in 0..MaxBlockEntries }

BlockInit ==
    /\ WriterUnused
    /\ pc = "input"
    /\ arg \in BlockInputs
    /\ enc = None
    /\ dec = None

\* every entry added to a fresh DataBlockBuilder
RECURSIVE DataBlockAddAll(_, _, _)
DataBlockAddAll(b, entries, i) ==
    IF i > Len(entries) THEN b
    ELSE DataBlockAddAll(DataBlockBuilder_add(b, entries[i].key, entries[i].value), entries, i + 1)

\* every entry added to a fresh IndexBlockBuilder
RECURSIVE IndexBlockAddAll(_, _, _)
IndexBlockAddAll(b, entries, i) ==
    IF i > Len(entries) THEN b
    ELSE IndexBlockAddAll(
             IndexBlockBuilder_add_index_entry(b, entries[i].key, entries[i].block_handle),
             entries, i + 1)

\* DataBlockBuilder: new, add for each entry, finish
BuildDataBlock ==
    /\ pc = "input" /\ arg.kind = "data"
    /\ enc' = DataBlockBuilder_finish(
                  DataBlockAddAll(DataBlockBuilder_new(arg.restart_interval), arg.entries, 1),
                  arg.compression, arg.checksum_type, None, None)
    /\ pc' = "built"
    /\ UNCHANGED <<arg, dec, writerVars, readerVars>>

\* DataBlock::new and get_entries on the bytes finish returned
ParseDataBlock ==
    /\ pc = "built" /\ arg.kind = "data" /\ enc.out.ok
    /\ \E lenient \in BOOLEAN :
          LET block == DataBlock_new(enc.out.v, arg.compression, lenient)
          IN  dec' = [block |-> block,
                      entries |-> IF block.ok THEN DataBlock_get_entries(block.v) ELSE block,
                      reader |-> DataBlockReader_new(enc.out.v, arg.compression, lenient),
                      read |-> <<>>]
    /\ pc' = "parsed"
    /\ UNCHANGED <<arg, enc, writerVars, readerVars>>

\* DataBlockReader: seek_to_first
DataBlockSeekToFirst ==
    /\ pc = "parsed" /\ arg.kind = "data" /\ dec.reader.ok
    /\ dec' = [dec EXCEPT !.reader = Ok(DataBlockReader_seek_to_first(dec.reader.v))]
    /\ pc' = "reading"
    /\ UNCHANGED <<arg, enc, writerVars, readerVars>>

\* DataBlockReader: one call of next; the loop ends when it returns None
DataBlockNext ==
    /\ pc = "reading"
    /\ LET n == DataBlockReader_next(dec.reader.v)
       IN  /\ dec' = [dec EXCEPT !.reader = Ok(n.r),
                                 !.read = IF n.out.some THEN Append(@, n.out.v) ELSE @]
           /\ pc' = IF n.out.some THEN "reading" ELSE "read"
    /\ UNCHANGED <<arg, enc, writerVars, readerVars>>

\* IndexBlockBuilder: new, add_index_entry for each entry, finish
BuildIndexBlock ==
    /\ pc = "input" /\ arg.kind = "index"
    /\ enc' = IndexBlockBuilder_finish(
                  IndexBlockAddAll(IndexBlockBuilder_new(arg.restart_interval), arg.entries, 1),
                  arg.compression, arg.checksum_type, None, None)
    /\ pc' = "built"
    /\ UNCHANGED <<arg, dec, writerVars, readerVars>>

\* IndexBlock::new and get_entries on the bytes finish returned
ParseIndexBlock ==
    /\ pc = "built" /\ arg.kind = "index" /\ enc.out.ok
    /\ LET block == IndexBlock_new(enc.out.v, arg.compression, FALSE)
       IN  dec' = [block |-> block,
                   entries |-> IF block.ok THEN IndexBlock_get_entries(block.v) ELSE block]
    /\ pc' = "parsed"
    /\ UNCHANGED <<arg, enc, writerVars, readerVars>>

BlockNext ==
    \/ BuildDataBlock
    \/ ParseDataBlock
    \/ DataBlockSeekToFirst
    \/ DataBlockNext
    \/ BuildIndexBlock
    \/ ParseIndexBlock

BlockSpec == BlockInit /\ [][BlockNext]_vars

\* C6: a data block built without compression from a sorted list of entries
\* parses back, through DataBlock::get_entries and through a DataBlockReader
\* (seek_to_first, then next until None), to exactly that list, for every
\* restart interval.
C6_DataBlockRoundTrip ==
    (arg.kind = "data" /\ arg.compression = CompressionType_None) =>
        /\ pc = "built" => enc.out.ok
        /\ pc \in {"parsed", "reading", "read"} =>
              /\ dec.block.ok
              /\ dec.entries = Ok(arg.entries)
              /\ dec.reader.ok
        /\ pc = "read" => dec.read = arg.entries

\* a block with a restart point after its first entry and a shared prefix was
\* read back to its end
C6_Witness ==
    /\ pc = "read" /\ arg.kind = "data" /\ arg.compression = CompressionType_None
    /\ arg.restart_interval = 2 /\ Len(arg.entries) = 3
    /\ arg.entries[1].key = <<97>> /\ arg.entries[2].key = <<97, 97>>
    /\ dec.block.v.num_restarts = 2
    /\ dec.read = arg.entries

\* C5: an index block built from entries whose keys strictly increase parses
\* back to the same (key, handle) pairs in order, for every restart interval.
C5_IndexBlockRoundTrip ==
    (arg.kind = "index" /\ pc = "parsed") =>
        /\ dec.block.ok
        /\ dec.entries = Ok(arg.entries)

\* C7: a data block written with a compression type other than None parses
\* back, with that compression type, to the entries that were added.
C7_CompressedBlockRoundTrip ==
    (arg.kind = "data" /\ arg.compression # CompressionType_None /\ pc = "parsed") =>
        /\ dec.block.ok
        /\ dec.entries = Ok(arg.entries)

----------------------------------------------------------------------------
(* FooterSpec: one footer encoded at a file offset, then decoded from its   *)
(* bytes or read from the end of a file.                                     *)

\* the format versions a footer may declare: 0 to 7, and the unknown 8
FooterVersions == 0..8

FooterInputs ==
    {[footer |-> Footer(ct, m, x, v, b), file_offset |-> o] :
        ct \in {ChecksumType_None, ChecksumType_CRC32c, ChecksumType_XXH3},
        m \in {BlockHandle(0, 0), BlockHandle(40, 13), BlockHandle(45, 13), BlockHandle(8, 200)},
        x \in {BlockHandle(0, 0), BlockHandle(20, 150)},
        v \in FooterVersions,
        b \in {None, Some(<< 0, 0, 0, 0 >>), Some(<< 68, 51, 34, 17 >>)},
        o \in {0, 4, 58, 213}}

\* the last four bytes of what precedes the footer in a file
PrefixTails == { << 0, 0, 0, 0 >>, << 5, 7, 9, 11 >>, << 17, 34, 51, 200 >> }

FooterInit ==
    /\ WriterUnused
    /\ pc = "input"
    /\ arg \in FooterInputs
    /\ enc = None
    /\ dec = None

\* Footer::encode_to_bytes
EncodeFooter ==
    /\ pc = "input"
    /\ enc' = Footer_encode_to_bytes(arg.footer, arg.file_offset)
    /\ pc' = "encoded"
    /\ UNCHANGED <<arg, dec, writerVars, readerVars>>

\* Footer::decode_from_bytes on the encoded bytes, at the same offset
DecodeFooter ==
    /\ pc = "encoded" /\ enc.ok
    /\ \E overflow_checks \in BOOLEAN :
          dec' = [call |-> "decode_from_bytes",
                  out |-> Footer_decode_from_bytes(enc.v, arg.file_offset, overflow_checks)]
    /\ pc' = "decoded"
    /\ UNCHANGED <<arg, enc, writerVars, readerVars>>

\* Footer::read_from on a file that holds file_offset bytes and then the footer
ReadFooter ==
    /\ pc = "encoded" /\ enc.ok
    /\ \E overflow_checks \in BOOLEAN, tail \in PrefixTails :
          LET prefix == IF arg.file_offset >= 4 THEN Zeros(arg.file_offset - 4) \o tail
                        ELSE Zeros(arg.file_offset)
          IN  dec' = [call |-> "read_from", prefix |-> prefix,
                      out |-> Footer_read_from(prefix \o enc.v, overflow_checks)]
    /\ pc' = "decoded"
    /\ UNCHANGED <<arg, enc, writerVars, readerVars>>

\* the file offsets of FooterInputs
FooterOffsets == {a.file_offset : a \in FooterInputs}

\* Footer::decode_from_bytes on the encoded bytes, at another offset
DecodeFooterElsewhere ==
    /\ pc = "encoded" /\ enc.ok
    /\ \E overflow_checks \in BOOLEAN, input_offset \in FooterOffsets \ {arg.file_offset} :
          dec' = [call |-> "decode_elsewhere", input_offset |-> input_offset,
                  out |-> Footer_decode_from_bytes(enc.v, input_offset, overflow_checks)]
    /\ pc' = "decoded"
    /\ UNCHANGED <<arg, enc, writerVars, readerVars>>

\* the 48 bytes of a version 0 footer: the two varint handles, zero padding and
\* LEGACY_MAGIC as the last 8 bytes, the layout decode_from_bytes reads
LegacyFooterBytes(f) ==
    LET handles == BlockHandle_encode_to(f.metaindex_handle)
                   \o BlockHandle_encode_to(f.index_handle)
    IN  handles \o Zeros(40 - Len(handles)) \o LEGACY_MAGIC_NUMBER

\* Footer::read_from, or decode_from_bytes, on a file that holds file_offset
\* bytes and then a version 0 footer
ReadLegacyFooter ==
    /\ pc = "input" /\ arg.footer.format_version = 0
    /\ \E overflow_checks \in BOOLEAN, tail \in PrefixTails,
          call \in {"read_from", "decode_from_bytes"} :
          LET prefix == IF arg.file_offset >= 4 THEN Zeros(arg.file_offset - 4) \o tail
                        ELSE Zeros(arg.file_offset)
          IN  dec' = [call |-> call, prefix |-> prefix,
                      out |-> IF call = "read_from"
                              THEN Footer_read_from(prefix \o LegacyFooterBytes(arg.footer),
                                                    overflow_checks)
                              ELSE Footer_decode_from_bytes(LegacyFooterBytes(arg.footer),
                                       arg.file_offset, overflow_checks)]
    /\ pc' = "legacy"
    /\ UNCHANGED <<arg, enc, writerVars, readerVars>>

\* the values the last byte of a file is changed to
ChangedLastBytes == {0, 137, 219}

\* the bytes with the last one replaced
WithLastByte(bytes, byte) == [bytes EXCEPT ![Len(bytes)] = byte]

\* Footer::read_from on a file whose last byte was changed, or
\* decode_from_bytes on the encoded footer with its last byte changed
ReadCorruptMagic ==
    /\ pc = "encoded" /\ enc.ok
    /\ \E overflow_checks \in BOOLEAN, byte \in ChangedLastBytes,
          call \in {"read_from", "decode_from_bytes"} :
          /\ byte # enc.v[Len(enc.v)]
          /\ dec' = [call |-> call, byte |-> byte,
                      out |-> IF call = "read_from"
                              THEN Footer_read_from(
                                       Zeros(arg.file_offset) \o WithLastByte(enc.v, byte),
                                       overflow_checks)
                              ELSE Footer_decode_from_bytes(WithLastByte(enc.v, byte),
                                       arg.file_offset, overflow_checks)]
    /\ pc' = "corrupt"
    /\ UNCHANGED <<arg, enc, writerVars, readerVars>>

\* the footer size of a format version: 49 bytes up to version 5, 53 from 6 on
FooterSizeOf(format_version) == IF format_version >= 6 THEN FOOTER_SIZE + 4 ELSE FOOTER_SIZE

\* lengths of short files
ShortLengths == {0, 7, 8, 12, 40, 47, 48, 52}

\* Footer::read_from on a file shorter than a footer: the last n bytes of the
\* encoded footer (the file ends in ROCKSDB_MAGIC), or under 48 bytes its first
\* n bytes
ReadShortFile ==
    /\ pc = "encoded" /\ enc.ok /\ arg.file_offset = 0
    /\ \E overflow_checks \in BOOLEAN, n \in ShortLengths, part \in {"first", "last"} :
          /\ n < FooterSizeOf(arg.footer.format_version)
          /\ part = "first" => n < 48
          /\ dec' = [call |-> "read_from", n |-> n, part |-> part,
                      out |-> Footer_read_from(
                                  IF part = "first" THEN Slice(enc.v, 0, n)
                                  ELSE Slice(enc.v, Len(enc.v) - n, Len(enc.v)),
                                  overflow_checks)]
    /\ pc' = "short"
    /\ UNCHANGED <<arg, enc, writerVars, readerVars>>

FooterNext ==
    \/ EncodeFooter
    \/ DecodeFooter
    \/ ReadFooter
    \/ DecodeFooterElsewhere
    \/ ReadLegacyFooter
    \/ ReadCorruptMagic
    \/ ReadShortFile

FooterSpec == FooterInit /\ [][FooterNext]_vars

\* the fields a round trip is to keep
SameFooter(f, g) ==
    /\ f.checksum_type = g.checksum_type
    /\ f.metaindex_handle = g.metaindex_handle
    /\ f.index_handle = g.index_handle
    /\ f.format_version = g.format_version

Storable(f, o) ==
    \/ f.format_version \in 1..5
    \/ /\ f.format_version \in 6..7
       /\ f.index_handle = BlockHandle(0, 0)
       /\ o >= 5 + f.metaindex_handle.size
       /\ f.metaindex_handle.offset = (o - 5) - f.metaindex_handle.size

C15_FooterBoundToOffset ==
    (pc = "decoded" /\ arg.footer.format_version \in 6..7
                    /\ arg.footer.index_handle = BlockHandle(0, 0)) =>
        /\ Len(enc.v) = FOOTER_SIZE + 4
        /\ dec.call = "decode_from_bytes" =>
              (dec.out.ok /\ SameFooter(dec.out.v, arg.footer))
        /\ dec.call = "decode_elsewhere" =>
              /\ dec.out = Err("DataCorruption")
              /\ Slice(Footer_encode_to_bytes(arg.footer, dec.input_offset).v, 5, 9)
                    # Slice(enc.v, 5, 9)

\* C16: Footer::read_from on a file whose last 48 bytes are a version 0 footer
\* (varint metaindex handle, varint index handle, zero padding, LEGACY_MAGIC as
\* the last 8 bytes) returns a footer of format version 0 with checksum type
\* CRC32c and the two handles as encoded.
C16_LegacyFooterRead ==
    (pc = "legacy" /\ dec.call = "read_from") =>
        /\ dec.out.ok
        /\ dec.out.v.format_version = 0
        /\ dec.out.v.checksum_type = ChecksumType_CRC32c
        /\ dec.out.v.metaindex_handle = arg.footer.metaindex_handle
        /\ dec.out.v.index_handle = arg.footer.index_handle

\* C17: decoding a footer that ends with ROCKSDB_MAGIC and declares a format
\* version outside 0..7 fails with UnsupportedFormatVersion.
C17_UnknownVersionRejected ==
    (pc = "decoded" /\ dec.call \in {"decode_from_bytes", "read_from"}
                    /\ arg.footer.format_version \notin 0..7) =>
        dec.out = Err("UnsupportedFormatVersion")

\* C26: Footer::read_from on a file whose last byte was changed, and
\* decode_from_bytes on an encoded footer whose last byte was changed, fail with
\* InvalidMagicNumber.
C26_CorruptMagic ==
    pc = "corrupt" => dec.out = Err("InvalidMagicNumber")

\* a file of 58 bytes and a version 5 footer with its last byte changed to the
\* last byte of LEGACY_MAGIC was refused by read_from
C26_Witness ==
    /\ pc = "corrupt" /\ dec.call = "read_from" /\ dec.byte = 219
    /\ arg.footer.format_version = 5 /\ arg.file_offset = 58
    /\ dec.out = Err("InvalidMagicNumber")

\* C27: Footer::read_from returns FileTooSmall for every file under 48 bytes
\* and for every file that ends in ROCKSDB_MAGIC and is shorter than the footer
\* of its format version.
C27_FileTooSmall ==
    pc = "short" => dec.out = Err("FileTooSmall")

\* the last 52 bytes of a version 6 footer, and the last 48 of a version 5
\* footer, were refused
C27_Witness ==
    /\ pc = "short" /\ dec.part = "last" /\ dec.out = Err("FileTooSmall")
    /\ \/ arg.footer.format_version = 6 /\ dec.n = 52
       \/ arg.footer.format_version = 5 /\ dec.n = 48

\* C9: read_from on a file that ends with a version 1 to 5 footer returns the
\* checksum type and the handles that were encoded, whatever precedes the footer.
C9_ReadBackFooter ==
    (pc = "decoded" /\ dec.call = "read_from" /\ arg.footer.format_version \in 1..5) =>
        /\ dec.out.ok
        /\ SameFooter(dec.out.v, arg.footer)

----------------------------------------------------------------------------
(* IterSpec: a table of data blocks and an index block with one entry per    *)
(* block, opened and walked with SstTableIterator.                           *)

\* the k-th block's entries when each block takes per_block entries
Chunk(entries, per_block, k) ==
    SubSeq(entries, (k - 1) * per_block + 1, Min(k * per_block, Len(entries)))

\* the data block DataBlockBuilder makes of the entries
DataBlockBytes(entries, restart_interval) ==
    DataBlockBuilder_finish(
        DataBlockAddAll(DataBlockBuilder_new(restart_interval), entries, 1),
        CompressionType_None, ChecksumType_CRC32c, None, None).out.v

\* the data blocks from the k-th on, one after another
RECURSIVE TableData(_, _, _, _)
TableData(entries, per_block, restart_interval, k) ==
    IF (k - 1) * per_block >= Len(entries) THEN <<>>
    ELSE DataBlockBytes(Chunk(entries, per_block, k), restart_interval)
         \o TableData(entries, per_block, restart_interval, k + 1)

\* the index entries of the blocks from the k-th on, the k-th block at offset off:
\* the last key of each block and the block's handle
RECURSIVE TableIndexEntries(_, _, _, _, _)
TableIndexEntries(entries, per_block, restart_interval, k, off) ==
    IF (k - 1) * per_block >= Len(entries) THEN <<>>
    ELSE << [key |-> entries[Min(k * per_block, Len(entries))].key,
             block_handle |->
                 BlockHandle(off, Len(DataBlockBytes(Chunk(entries, per_block, k),
                                                     restart_interval)))] >>
         \o TableIndexEntries(entries, per_block, restart_interval, k + 1,
                off + Len(DataBlockBytes(Chunk(entries, per_block, k), restart_interval)))

\* the index block IndexBlockBuilder makes of the index entries
IndexBlockBytes(index_entries, restart_interval) ==
    IndexBlockBuilder_finish(
        IndexBlockAddAll(IndexBlockBuilder_new(restart_interval), index_entries, 1),
        CompressionType_None, ChecksumType_CRC32c, None, None).out.v

\* the end of a table file whose index block is at index_handle: a version 5
\* footer with that index handle.  read_from decodes the last 53 bytes of the
\* file, so the four bytes before the footer are part of what it decodes; they
\* are such that the handle it decodes is index_handle too.
TableTail(index_handle) ==
    << 9, 0, index_handle.offset, index_handle.size >>
    \o Footer_encode_to_bytes(
           Footer(ChecksumType_CRC32c, BlockHandle(9, 0), index_handle, 5, None), 0).v

\* the file of a table
TableFile(t) ==
    TableData(t.entries, t.per_block, t.restart_interval, 1)
    \o IndexBlockBytes(TableIndexEntries(t.entries, t.per_block, t.restart_interval, 1, 0),
                       t.restart_interval)
    \o TableTail(BlockHandle(
           Len(TableData(t.entries, t.per_block, t.restart_interval, 1)),
           Len(IndexBlockBytes(
                   TableIndexEntries(t.entries, t.per_block, t.restart_interval, 1, 0),
                   t.restart_interval))))

\* the tables: up to MaxBlockEntries entries with strictly increasing keys, the
\* i-th with the value <<i>>, in blocks of per_block entries
TableInputs ==
    UNION {
        {[entries |-> [i \in 1..n |-> [key |-> ks[i], value |-> << i >>]],
          per_block |-> per_block, restart_interval |-> R] :
            ks \in SortedKeySeqs(n), per_block \in 1..n, R \in 1..MaxRestartInterval}
        : n \in 1..MaxBlockEntries }

IterInit ==
    /\ options = None /\ writer = None /\ data_block_builder = None
    /\ index_block_builder = None /\ offset = 0 /\ num_entries = 0
    /\ last_key = <<>> /\ finished = FALSE /\ pending_index_entry = None
    /\ accepted = <<>> /\ blocks = <<>> /\ written_footer = None
    /\ arg \in TableInputs
    /\ file = TableFile(arg)
    /\ pc = "table"
    /\ result = None /\ sst_reader = None /\ iterator = None
    /\ enc = None /\ dec = None

\* the iterator of a reader, or the reader's error
IteratorOf(rd, lenient) ==
    IF ~rd.ok THEN rd ELSE SstTableIterator_new(rd.v, CompressionType_None, lenient)

\* SstReader::open on the table's file, then SstTableIterator::new
OpenTable ==
    /\ pc = "table"
    /\ \E overflow_checks \in BOOLEAN, lenient \in BOOLEAN :
          /\ sst_reader' = Some(SstReader_open(file, overflow_checks))
          /\ iterator' = Some(IteratorOf(SstReader_open(file, overflow_checks), lenient))
    /\ pc' = "open"
    /\ UNCHANGED <<writerVars, arg, enc, dec>>

\* a call on the iterator: the iterator after it and what the caller sees
IterCall(name, target_key, after) ==
    /\ iterator' = Some(Ok(after.it))
    /\ result' = Some([call |-> name, target_key |-> target_key, out |-> after.out])
    /\ UNCHANGED <<options, writer, data_block_builder, index_block_builder, offset,
                   num_entries, last_key, finished, pending_index_entry, file, accepted,
                   blocks, written_footer, sst_reader, codecVars>>

IterOpen == pc = "open" /\ iterator.some /\ iterator.v.ok

SeekToFirst ==
    /\ IterOpen
    /\ IterCall("seek_to_first", <<>>, SstTableIterator_seek_to_first(iterator.v.v))

SeekToLast ==
    /\ IterOpen
    /\ IterCall("seek_to_last", <<>>, SstTableIterator_seek_to_last(iterator.v.v))

Seek ==
    /\ IterOpen
    /\ \E target_key \in Keys :
          IterCall("seek", target_key, SstTableIterator_seek(iterator.v.v, target_key))

IterNext ==
    /\ IterOpen
    /\ IterCall("next", <<>>, SstTableIterator_next(iterator.v.v))

IterPrev ==
    /\ IterOpen
    /\ IterCall("prev", <<>>, SstTableIterator_prev(iterator.v.v))

\* SstEntryIterator::find: the iterator is left where its seek put it
Find ==
    /\ IterOpen
    /\ \E target_key \in Keys :
          IterCall("find", target_key,
                   [it |-> SstTableIterator_seek(iterator.v.v, target_key).it,
                    out |-> SstEntryIterator_find(iterator.v.v, target_key)])

IterSpecNext ==
    \/ OpenTable
    \/ SeekToFirst
    \/ SeekToLast
    \/ Seek
    \/ IterNext
    \/ IterPrev
    \/ Find

IterSpec == IterInit /\ [][IterSpecNext]_vars

\* C10: after seek(k) the iterator is valid at the smallest stored key >= k,
\* with that entry's key and value, or invalid when no stored key is >= k; and
\* find(k) returns the value of every stored key k.
C10_SeekFindsSmallestKeyAtOrPast ==
    (IterOpen /\ result.some /\ result.v.call \in {"seek", "find"}) =>
        /\ result.v.out.ok
        /\ IF AtOrPast(arg.entries, result.v.target_key) = {}
           THEN ~SstTableIterator_valid(iterator.v.v)
           ELSE /\ SstTableIterator_valid(iterator.v.v)
                /\ SstTableIterator_key(iterator.v.v) =
                      Some(arg.entries[Least(AtOrPast(arg.entries, result.v.target_key))].key)
                /\ SstTableIterator_value(iterator.v.v) =
                      Some(arg.entries[Least(AtOrPast(arg.entries, result.v.target_key))].value)
        /\ \A i \in 1..Len(arg.entries) :
              (result.v.call = "find" /\ arg.entries[i].key = result.v.target_key)
                  => result.v.out = Ok(Some(arg.entries[i].value))

----------------------------------------------------------------------------
(* ReadSpec: the file of a table, one checksum byte of its first data block *)
(* possibly changed on disk, opened with SstReader and read block by block.  *)

\* SstReader::read_data_block once the block is read
DataBlockOfBlock(block_data, compression_type, lenient) ==
    IF ~block_data.ok THEN block_data
    ELSE DataBlock_new(block_data.v, compression_type, lenient)

\* SstReader::read_data_block
SstReader_read_data_block(rd, handle, compression_type, lenient) ==
    DataBlockOfBlock(SstReader_read_block(rd, handle), compression_type, lenient)

\* the length of the first data block of a table
FirstBlockLen(t) == Len(DataBlockBytes(Chunk(t.entries, t.per_block, 1), t.restart_interval))

\* the bytes with the byte at position at (from 1) changed
Damaged(bytes, at) == [bytes EXCEPT ![at] = (@ + 1) % 256]

\* the tables and the damage done to the stored checksum of the first data
\* block: 0 for none, else which of its four bytes is changed
ReadInputs ==
    {[table |-> t, damage |-> d, first_block_len |-> FirstBlockLen(t)] :
        t \in TableInputs, d \in 0..4}

\* the file of an input
ReadFile(a) ==
    IF a.damage = 0 THEN TableFile(a.table)
    ELSE Damaged(TableFile(a.table), a.first_block_len - 4 + a.damage)

\* where the footer of the file starts (a version 5 footer)
FooterStart == Len(file) - FOOTER_SIZE

\* the handles a caller asks for: the first data block, ranges before, across
\* and inside the footer, ranges across and past the end of the file
ReadHandles ==
    {BlockHandle(0, arg.first_block_len), BlockHandle(0, 0), BlockHandle(1, 5),
     BlockHandle(FooterStart - 1, 1), BlockHandle(FooterStart - 1, 2),
     BlockHandle(FooterStart, 0), BlockHandle(FooterStart, FOOTER_SIZE),
     BlockHandle(FooterStart + 3, 5), BlockHandle(0, Len(file)),
     BlockHandle(Len(file) - 1, 2), BlockHandle(Len(file), 1),
     BlockHandle(0, Len(file) + 1), BlockHandle(Len(file) + 1, 0)}

ReadInit ==
    /\ options = None /\ writer = None /\ data_block_builder = None
    /\ index_block_builder = None /\ offset = 0 /\ num_entries = 0
    /\ last_key = <<>> /\ finished = FALSE /\ pending_index_entry = None
    /\ accepted = <<>> /\ blocks = <<>> /\ written_footer = None
    /\ arg \in ReadInputs
    /\ file = ReadFile(arg)
    /\ pc = "file"
    /\ result = None /\ sst_reader = None /\ iterator = None
    /\ enc = None /\ dec = None

\* a call on the reader and what the caller sees
ReadCall(name, handle, out) ==
    /\ result' = Some([call |-> name, handle |-> handle, out |-> out])
    /\ sst_reader' = Some(Ok(SstReader_read_block_reader(sst_reader.v.v, handle)))
    /\ UNCHANGED <<options, writer, data_block_builder, index_block_builder, offset,
                   num_entries, last_key, finished, pending_index_entry, file, accepted,
                   blocks, written_footer, iterator, codecVars>>

\* SstReader::open on the file
ReadOpen ==
    /\ pc = "file"
    /\ \E overflow_checks \in BOOLEAN :
          sst_reader' = Some(SstReader_open(file, overflow_checks))
    /\ pc' = "open"
    /\ UNCHANGED <<writerVars, iterator, arg, enc, dec>>

\* SstReader::read_block
ReadBlock ==
    /\ pc = "open" /\ sst_reader.v.ok
    /\ \E handle \in ReadHandles :
          ReadCall("read_block", handle, SstReader_read_block(sst_reader.v.v, handle))

\* SstReader::read_data_block, ReadOptions at their default
ReadDataBlock ==
    /\ pc = "open" /\ sst_reader.v.ok
    /\ \E handle \in ReadHandles, lenient \in BOOLEAN :
          ReadCall("read_data_block", handle,
                   SstReader_read_data_block(sst_reader.v.v, handle,
                                             CompressionType_None, lenient))

ReadNext ==
    \/ ReadOpen
    \/ ReadBlock
    \/ ReadDataBlock

ReadSpec == ReadInit /\ [][ReadNext]_vars

\* the checksum stored in the last four bytes of a block differs from the
\* checksum of the bytes before it (payload and compression tag)
ChecksumDiffers(block_data, checksum_type) ==
    /\ Len(block_data) >= 5
    /\ Slice(block_data, Len(block_data) - 4, Len(block_data))
         # ChecksumType_calculate(checksum_type, Slice(block_data, 0, Len(block_data) - 4))

\* C11: read_data_block, with verify_checksums at its default of true, returns
\* DataCorruption for every block whose stored trailer checksum differs from the
\* checksum recomputed over the block bytes and the compression tag; no such
\* block is returned as parsed.
C11_WrongChecksumIsCorruption ==
    (/\ pc = "open" /\ result.some /\ result.v.call = "read_data_block"
     /\ SstReader_read_block(sst_reader.v.v, result.v.handle).ok
     /\ ChecksumDiffers(SstReader_read_block(sst_reader.v.v, result.v.handle).v,
                        sst_reader.v.v.footer.checksum_type))
        => result.v.out = Err("DataCorruption")

\* C18: read_block returns InvalidBlockHandle for every handle whose range is
\* not wholly inside the file before the footer, and otherwise exactly size
\* bytes starting at offset.
C18_ReadBlockBounds ==
    (pc = "open" /\ result.some /\ result.v.call = "read_block") =>
        IF result.v.handle.offset + result.v.handle.size <= FooterStart
        THEN result.v.out = Ok(SubSeq(file, result.v.handle.offset + 1,
                                      result.v.handle.offset + result.v.handle.size))
        ELSE result.v.out = Err("InvalidBlockHandle")

\* the last call on the reader failed
LastCallFailed == result.some /\ ~result.v.out.ok

\* C25: a read_block or read_data_block call that fails leaves the reader's
\* footer and file size as they were, and a later read_block with a valid
\* handle returns the bytes of its range, as if the failing call had never
\* been made.
C25_FailedReadLeavesReader ==
    [][(pc = "open" /\ sst_reader.v.ok /\ LastCallFailed') =>
          /\ sst_reader'.v.ok
          /\ sst_reader'.v.v.footer = sst_reader.v.v.footer
          /\ sst_reader'.v.v.file_size = sst_reader.v.v.file_size
          /\ sst_reader'.v.v.bytes = sst_reader.v.v.bytes
          /\ \A handle \in ReadHandles :
                handle.offset + handle.size <= Len(file) =>
                    SstReader_read_block(sst_reader'.v.v, handle)
                        = Ok(SubSeq(file, handle.offset + 1, handle.offset + handle.size))]_vars

\* read_data_block failed on bytes it had read: the stream moved from the end
\* of the file, where open left it, to the end of the range
C25_Witness ==
    /\ pc = "open" /\ sst_reader.v.ok /\ arg.damage = 0
    /\ LastCallFailed /\ result.v.call = "read_data_block"
    /\ result.v.out = Err("InvalidBlockFormat")
    /\ result.v.handle = BlockHandle(1, 5)
    /\ sst_reader.v.v.pos = 6

----------------------------------------------------------------------------
(* WideSpec: varints, block handles and footers over the whole u64 range.    *)
(* A u64 is four 16-bit limbs, the least significant first.                  *)

RECURSIVE TwoTo(_)
TwoTo(r) == IF r = 0 THEN 1 ELSE 2 * TwoTo(r - 1)

\* value >= 0x80
u64_ge_0x80(value) == value[1] >= 128 \/ value[2] # 0 \/ value[3] # 0 \/ value[4] # 0

\* value >> 7
u64_shr_7(value) ==
    [i \in 1..4 |-> (value[i] \div 128) + (IF i < 4 THEN (value[i + 1] % 128) * 512 ELSE 0)]

\* (bits as u64) << shift for bits below 2^8 and a shift below 64: the bits
\* shifted past bit 63 are dropped
u64_shl(bits, shift) ==
    [i \in 1..4 |->
        IF i = (shift \div 16) + 1 THEN (bits * TwoTo(shift % 16)) % TwoTo(16)
        ELSE IF i = (shift \div 16) + 2 THEN (bits * TwoTo(shift % 16)) \div TwoTo(16)
        ELSE 0]

\* acc | bits, for bits that are all above those set in acc (the result so far)
u64_or(acc, bits) == [i \in 1..4 |-> acc[i] + bits[i]]

\* write_varint64 that leaves the continuation bit out
RECURSIVE write_varint64_u64_NoContinuation(_)
write_varint64_u64_NoContinuation(value) ==
    IF u64_ge_0x80(value)
    THEN << value[1] % 128 >> \o write_varint64_u64_NoContinuation(u64_shr_7(value))
    ELSE << value[1] >>

\* varint64_length on a u64
RECURSIVE varint64_length_u64(_)
varint64_length_u64(value) ==
    IF u64_ge_0x80(value) THEN varint64_length_u64(u64_shr_7(value)) + 1 ELSE 1

\* BlockHandle::encoded_length
BlockHandle_encoded_length_u64(h) ==
    varint64_length_u64(h.offset) + varint64_length_u64(h.size)

\* write_varint64 on a u64
RECURSIVE write_varint64_u64(_)
write_varint64_u64(value) ==
    IF u64_ge_0x80(value)
    THEN << (value[1] % 128) + 128 >> \o write_varint64_u64(u64_shr_7(value))
    ELSE << value[1] >>

\* the loop of read_varint64 on a u64: n bytes read so far; read_u8 past the
\* end of the input is UnexpectedEof, an Io error
RECURSIVE ReadVarint64LoopU64(_, _, _, _, _)
ReadVarint64LoopU64(data, pos, acc, shift, n) ==
    IF n = 10 THEN Err("InvalidVarint")
    ELSE IF pos >= Len(data) THEN Err("Io")
    ELSE IF data[pos + 1] < 128
    THEN Ok([value |-> u64_or(acc, u64_shl(data[pos + 1], shift)), pos |-> pos + 1])
    ELSE ReadVarint64LoopU64(data, pos + 1,
             u64_or(acc, u64_shl(data[pos + 1] % 128, shift)), shift + 7, n + 1)

\* read_varint64 on a u64
read_varint64_u64(data, pos) == ReadVarint64LoopU64(data, pos, << 0, 0, 0, 0 >>, 0, 0)

\* BlockHandle::encode_to
BlockHandle_encode_to_u64(h) == write_varint64_u64(h.offset) \o write_varint64_u64(h.size)

\* BlockHandle::decode_from from the offset on
HandleFromOffsetU64(data, off) ==
    IF ~off.ok THEN off ELSE HandleWithSize(off.v.value, read_varint64_u64(data, off.v.pos))

\* BlockHandle::decode_from
BlockHandle_decode_from_u64(data, pos) == HandleFromOffsetU64(data, read_varint64_u64(data, pos))

\* value as u32: the low 32 bits
u64_as_u32(value) == << value[1], value[2], 0, 0 >>

\* IndexBlockBuilder::add_index_entry for a handle of two u64: offset and size
\* are cast to u32 before they are encoded
IndexBlockBuilder_add_index_entry_u64(b, key, block_handle) ==
    LET restart == ~(b.counter < b.restart_interval)
        shared == IF restart THEN 0 ELSE SharedLoop(b.last_key, key, 0)
        non_shared == Len(key) - shared
        handle_data == write_varint64_u64(u64_as_u32(block_handle.offset))
                           \o write_varint64_u64(u64_as_u32(block_handle.size))
    IN  [b EXCEPT
           !.restarts = IF restart THEN Append(@, Len(b.buffer)) ELSE @,
           !.buffer = @ \o EncodeVarint32(shared) \o EncodeVarint32(non_shared)
                        \o EncodeVarint32(Len(handle_data))
                        \o Slice(key, shared, Len(key)) \o handle_data,
           !.last_key = key,
           !.counter = (IF restart THEN 0 ELSE @) + 1]

\* IndexBlock::read_varint_from_slice with the u32 result as limbs: the bits
\* shifted past bit 31 are dropped, a continuation bit in the fifth byte is
\* InvalidVarint
RECURSIVE ReadVarintFromSliceU64(_, _, _, _)
ReadVarintFromSliceU64(data, pos, acc, shift) ==
    IF pos >= Len(data) THEN Err("InvalidVarint")
    ELSE IF data[pos + 1] < 128
    THEN Ok([value |-> u64_or(acc, u64_as_u32(u64_shl(data[pos + 1], shift))), pos |-> pos + 1])
    ELSE IF shift + 7 >= 32 THEN Err("InvalidVarint")
    ELSE ReadVarintFromSliceU64(data, pos + 1,
             u64_or(acc, u64_as_u32(u64_shl(data[pos + 1] % 128, shift))), shift + 7)

\* parse_block_handle from the offset on, with u32 results as limbs
HandleOfOffsetU32(data, off) ==
    IF ~off.ok THEN off
    ELSE LET size == ReadVarintFromSliceU64(data, off.v.pos, << 0, 0, 0, 0 >>, 0)
         IN  IF ~size.ok THEN size ELSE Ok(BlockHandle(off.v.value, size.v.value))

\* IndexBlock::parse_block_handle: two u32 varints widened to u64
parse_block_handle_u64(data) ==
    HandleOfOffsetU32(data, ReadVarintFromSliceU64(data, 0, << 0, 0, 0, 0 >>, 0))

\* IndexBlock::get_entries on a block of one entry: the entry with its value
\* bytes and its handle as two u64
FirstIndexEntryOfHeader(block, h, block_handle) ==
    IF ~block_handle.ok THEN block_handle
    ELSE Ok([key |-> EntryKey(block.data, <<>>, h),
             value |-> EntryValue(block.data, h),
             block_handle |-> block_handle.v])

FirstIndexEntry_u64(block, h) ==
    IF ~h.ok THEN h
    ELSE IF h.v.shared_key_len > 0 THEN Err("InvalidBlockFormat")
    ELSE IF h.v.unshared_key_len > Len(block.data) - h.v.pos THEN Err("InvalidBlockFormat")
    ELSE IF h.v.value_len = 0 THEN Err("InvalidBlockFormat")
    ELSE IF h.v.value_len > Len(block.data) - (h.v.pos + h.v.unshared_key_len)
    THEN Err("InvalidBlockFormat")
    ELSE FirstIndexEntryOfHeader(block, h.v, parse_block_handle_u64(EntryValue(block.data, h.v)))

\* (value as i32).to_le_bytes()
u64_as_i32_le(value) ==
    << value[1] % 256, value[1] \div 256, value[2] % 256, value[2] \div 256 >>

\* encode_to_bytes, format version 6 and above, before the checksum is stored
FooterV6Unchecked(f, base_context_checksum) ==
    << f.checksum_type >> \o EXTENDED_MAGIC \o Zeros(4) \o base_context_checksum
    \o u64_as_i32_le(f.metaindex_handle.size) \o Zeros(8) \o Zeros(16)
    \o U32LE(f.format_version) \o ROCKSDB_MAGIC_NUMBER

\* encode_to_bytes, format version 6 and above: the checksum goes to bytes 5..8
FooterV6Checked(data, modified_checksum) ==
    Ok(Slice(data, 0, 5) \o modified_checksum \o Slice(data, 9, Len(data)))

\* encode_to_bytes, format versions 1 to 5, once type and handles are written:
\* FOOTER_SIZE - used_bytes - 12 is an unchecked usize subtraction, a panic with
\* overflow checks and, without them, a vector of nearly 2^64 zeros, a panic too
FooterV1Padded(data, format_version) ==
    IF FOOTER_SIZE - Len(data) - 12 < 0 THEN Err("panic")
    ELSE Ok(data \o Zeros(FOOTER_SIZE - Len(data) - 12)
            \o U32LE(format_version) \o ROCKSDB_MAGIC_NUMBER)

\* Footer::encode_to_bytes of a footer with u64 handles
Footer_encode_to_bytes_u64(f, file_offset) ==
    IF f.format_version >= 6
    THEN FooterV6Checked(
             FooterV6Unchecked(f, IF f.base_context_checksum.some
                                  THEN f.base_context_checksum.v ELSE Zeros(4)),
             wrapping_add(
                 ChecksumType_calculate(f.checksum_type,
                     FooterV6Unchecked(f, IF f.base_context_checksum.some
                                          THEN f.base_context_checksum.v ELSE Zeros(4))),
                 checksum_modifier_for_context(
                     IF f.base_context_checksum.some THEN f.base_context_checksum.v
                     ELSE Zeros(4), file_offset)))
    ELSE FooterV1Padded(<< f.checksum_type >> \o BlockHandle_encode_to_u64(f.metaindex_handle)
                        \o BlockHandle_encode_to_u64(f.index_handle), f.format_version)

\* u64 values: 0, the ends of the one-byte and two-byte varints, 2^16, 2^32 - 1,
\* 2^32, 2^63 - 1, 2^63 and u64::MAX
WideValues ==
    { << 0, 0, 0, 0 >>, << 127, 0, 0, 0 >>, << 128, 0, 0, 0 >>, << 16383, 0, 0, 0 >>,
      << 0, 1, 0, 0 >>, << 65535, 65535, 0, 0 >>, << 0, 0, 1, 0 >>,
      << 65535, 65535, 65535, 32767 >>, << 0, 0, 0, 32768 >>,
      << 65535, 65535, 65535, 65535 >> }

\* n bytes with the continuation bit set
RECURSIVE Continued(_)
Continued(n) == IF n = 0 THEN <<>> ELSE << 129 >> \o Continued(n - 1)

\* the bytes of one varint by shape: whole (up to nine continuation bytes and a
\* last byte), overlong (ten or eleven continuation bytes before the last byte)
\* or truncated (continuation bytes and no last byte)
VarintShapes ==
    {[shape |-> "whole", bytes |-> Continued(k) \o << 1 >>] : k \in 0..9}
    \cup {[shape |-> "overlong", bytes |-> Continued(k) \o << 1 >>] : k \in 10..11}
    \cup {[shape |-> "truncated", bytes |-> Continued(k)] : k \in 0..9}

WideInputs ==
    {[kind |-> "handle", handle |-> BlockHandle(o, z)] : o \in WideValues, z \in WideValues}
    \cup {[kind |-> "bytes", offset |-> a, size |-> b] :
             a \in {v \in VarintShapes : v.shape = "whole"}, b \in VarintShapes}
    \cup {[kind |-> "bytes", offset |-> a, size |-> [shape |-> "none", bytes |-> <<>>]] :
             a \in {v \in VarintShapes : v.shape # "whole"}}
    \cup {[kind |-> "index_entry", key |-> k, handle |-> BlockHandle(o, z)] :
             k \in {<<>>, << 97 >>}, o \in WideValues, z \in WideValues}
    \cup {[kind |-> "footer",
           footer |-> Footer(ct, BlockHandle(m, m), BlockHandle(x, z), v, None),
           file_offset |-> o] :
             ct \in {ChecksumType_CRC32c}, m \in WideValues,
             x \in {<< 0, 0, 0, 0 >>, << 0, 0, 1, 0 >>, << 65535, 65535, 65535, 65535 >>},
             z \in {<< 0, 0, 0, 0 >>, << 65535, 65535, 65535, 65535 >>},
             v \in 1..7, o \in {0, 213}}

WideInit ==
    /\ WriterUnused
    /\ pc = "input"
    /\ arg \in WideInputs
    /\ enc = None
    /\ dec = None

\* BlockHandle::encode_to
EncodeHandle ==
    /\ pc = "input" /\ arg.kind = "handle"
    /\ enc' = BlockHandle_encode_to_u64(arg.handle)
    /\ pc' = "encoded"
    /\ UNCHANGED <<arg, dec, writerVars, readerVars>>

\* BlockHandle::decode_from on the encoding
DecodeHandle ==
    /\ pc = "encoded" /\ arg.kind = "handle"
    /\ dec' = BlockHandle_decode_from_u64(enc, 0)
    /\ pc' = "decoded"
    /\ UNCHANGED <<arg, enc, writerVars, readerVars>>

\* BlockHandle::decode_from on given bytes
DecodeBytes ==
    /\ pc = "input" /\ arg.kind = "bytes"
    /\ dec' = BlockHandle_decode_from_u64(arg.offset.bytes \o arg.size.bytes, 0)
    /\ pc' = "decoded"
    /\ UNCHANGED <<arg, enc, writerVars, readerVars>>

\* Footer::encode_to_bytes
EncodeWideFooter ==
    /\ pc = "input" /\ arg.kind = "footer"
    /\ enc' = Footer_encode_to_bytes_u64(arg.footer, arg.file_offset)
    /\ pc' = "encoded"
    /\ UNCHANGED <<arg, dec, writerVars, readerVars>>

\* IndexBlockBuilder: new, add_index_entry, finish
AddWideIndexEntry ==
    /\ pc = "input" /\ arg.kind = "index_entry"
    /\ enc' = IndexBlockBuilder_finish(
                  IndexBlockBuilder_add_index_entry_u64(IndexBlockBuilder_new(2), arg.key,
                                                        arg.handle),
                  CompressionType_None, ChecksumType_CRC32c, None, None)
    /\ pc' = "encoded"
    /\ UNCHANGED <<arg, dec, writerVars, readerVars>>

\* IndexBlock::new and get_entries on the block
ParseWideIndexEntry ==
    /\ pc = "encoded" /\ arg.kind = "index_entry" /\ enc.out.ok
    /\ LET block == IndexBlock_new(enc.out.v, CompressionType_None, FALSE)
       IN  dec' = IF ~block.ok THEN block
                  ELSE FirstIndexEntry_u64(block.v,
                           ReadEntryHeader(block.v.data, IndexStartPos(block.v)))
    /\ pc' = "decoded"
    /\ UNCHANGED <<arg, enc, writerVars, readerVars>>

WideNext ==
    \/ EncodeHandle
    \/ DecodeHandle
    \/ DecodeBytes
    \/ EncodeWideFooter
    \/ AddWideIndexEntry
    \/ ParseWideIndexEntry

WideSpec == WideInit /\ [][WideNext]_vars

\* C14: encode_to_bytes returns exactly 49 bytes for a footer of format version
\* 1 to 5 and exactly 53 bytes for one of version 6 or 7, whatever the handles,
\* up to those of twenty encoded bytes.
C14_FooterSize ==
    (arg.kind = "footer" /\ pc = "encoded") =>
        /\ enc.ok
        /\ Len(enc.v) = (IF arg.footer.format_version <= 5 THEN FOOTER_SIZE ELSE FOOTER_SIZE + 4)

\* C19: BlockHandle::decode_from fails with InvalidVarint on a varint of more
\* than ten bytes with the continuation bit and on an input that ends before a
\* varint does; a handle of u64 values, those of ten-byte varints included,
\* encodes and decodes to itself.
C19_VarintErrors ==
    /\ (arg.kind = "bytes" /\ pc = "decoded") =>
          IF arg.offset.shape = "whole" /\ arg.size.shape = "whole" THEN dec.ok
          ELSE dec = Err("InvalidVarint")
    /\ (arg.kind = "handle" /\ pc = "decoded") =>
          (dec.ok /\ dec.v.handle = arg.handle /\ dec.v.pos = Len(enc))

\* C28: for every handle H with u64 offset and size, decoding the encoding of
\* H returns H and consumes exactly the encoded bytes, and encoded_length(H) is
\* the number of bytes encoded, at most 20.
C28_HandleRoundTrip ==
    (arg.kind = "handle" /\ pc = "decoded") =>
        /\ dec = Ok([handle |-> arg.handle, pos |-> Len(enc)])
        /\ BlockHandle_encoded_length_u64(arg.handle) = Len(enc)
        /\ Len(enc) <= 20

\* the handle (u64::MAX, 2^63) took twenty bytes and came back
C28_Witness ==
    /\ arg.kind = "handle" /\ pc = "decoded"
    /\ arg.handle = BlockHandle(<< 65535, 65535, 65535, 65535 >>, << 0, 0, 0, 32768 >>)
    /\ Len(enc) = 20 /\ dec.ok /\ dec.v.handle = arg.handle

----------------------------------------------------------------------------
(* BuilderSpec: one DataBlockBuilder driven call by call: add, finish, reset, *)
(* and DataBlock::new on what finish returned.  enc holds the builder, dec    *)
(* the entries added since the last reset (each with the offset it starts at  *)
(* and the bytes add wrote for it), the last call and its outcome, and        *)
(* whether the last reset was of a finished builder.                          *)

\* keys and values of the adds; keys are taken in any order, add does not compare them
BuilderKeys == { <<>>, <<97>>, <<97, 97>>, <<97, 98>> }
BuilderValues == { <<>>, <<1>> }

\* "user:000" followed by the digit d
UserKey(d) == << 117, 115, 101, 114, 58, 48, 48, 48, 48 + d >>

\* scenario S2: the five entries (user:0001 .. user:0005, v_i)
S2Entries == [i \in 1..5 |-> [key |-> UserKey(i), value |-> << i >>]]

\* a builder of any restart interval given any entries, and the builder of S2
BuilderInputs ==
    {[restart_interval |-> R, script |-> <<>>] : R \in 1..MaxRestartInterval}
    \cup {[restart_interval |-> 4, script |-> S2Entries]}

BuilderInit ==
    /\ WriterUnused
    /\ pc = "builder"
    /\ arg \in BuilderInputs
    /\ enc = DataBlockBuilder_new(arg.restart_interval)
    /\ dec = [added |-> <<>>, call |-> "new", out |-> Ok(TRUE), was_reset |-> FALSE]

\* the entries the next add may be given
NextEntries ==
    IF arg.script = <<>>
    THEN IF Len(dec.added) < MaxBlockEntries \/ enc.finished
         THEN {[key |-> k, value |-> v] : k \in BuilderKeys, v \in BuilderValues}
         ELSE {}
    ELSE IF Len(dec.added) < Len(arg.script) THEN {arg.script[Len(dec.added) + 1]}
    ELSE IF enc.finished THEN {arg.script[1]}
    ELSE {}

\* DataBlockBuilder::add
BuilderAdd ==
    /\ pc = "builder"
    /\ \E e \in NextEntries :
          IF DataBlockBuilder_add_asserts(enc)
          THEN /\ enc' = DataBlockBuilder_add(enc, e.key, e.value)
               /\ dec' = [dec EXCEPT
                            !.added = Append(@, [key |-> e.key, value |-> e.value,
                                                 at |-> Len(enc.buffer),
                                                 wrote |-> Slice(enc'.buffer, Len(enc.buffer),
                                                                 Len(enc'.buffer))]),
                            !.call = "add", !.out = Ok(TRUE)]
          ELSE /\ enc' = enc
               /\ dec' = [dec EXCEPT !.call = "add", !.out = Err("panic")]
    /\ UNCHANGED <<pc, arg, writerVars, readerVars>>

\* DataBlockBuilder::finish
BuilderFinishBlock ==
    /\ pc = "builder"
    /\ LET done == DataBlockBuilder_finish(enc, CompressionType_None, ChecksumType_CRC32c,
                                           None, None)
       IN  /\ enc' = done.b
           /\ dec' = [dec EXCEPT !.call = "finish", !.out = done.out]
    /\ UNCHANGED <<pc, arg, writerVars, readerVars>>

\* DataBlockBuilder::reset
BuilderReset ==
    /\ pc = "builder"
    /\ enc' = DataBlockBuilder_reset(enc)
    /\ dec' = [added |-> <<>>, call |-> "reset", out |-> Ok(TRUE),
               was_reset |-> enc.finished]
    /\ UNCHANGED <<pc, arg, writerVars, readerVars>>

\* the headers of the first two entries of a parsed block
FirstHeaders(block) ==
    LET first == ReadEntryHeader(block.data, 0)
    IN  IF ~first.ok THEN << first >>
        ELSE << first,
                ReadEntryHeader(block.data,
                    first.v.pos + first.v.unshared_key_len + first.v.value_len) >>

\* DataBlock::new and get_entries on the block the last finish returned
BuilderParse ==
    /\ pc = "builder"
    /\ dec.call = "finish" /\ dec.out.ok
    /\ \E lenient \in BOOLEAN :
          LET block == DataBlock_new(dec.out.v, CompressionType_None, lenient)
          IN  dec' = [dec EXCEPT
                        !.call = "parse",
                        !.out = IF ~block.ok THEN block
                                ELSE Ok([restart_points |-> block.v.restart_points,
                                         entries |-> DataBlock_get_entries(block.v),
                                         headers |-> FirstHeaders(block.v)])]
    /\ UNCHANGED <<pc, arg, enc, writerVars, readerVars>>

BuilderNext ==
    \/ BuilderAdd
    \/ BuilderFinishBlock
    \/ BuilderReset
    \/ BuilderParse

BuilderSpec == BuilderInit /\ [][BuilderNext]_vars

\* the restart offsets of the builder, as a set
RestartOffsets == {enc.restarts[i] : i \in 1..Len(enc.restarts)}

\* C21: after n >= 1 adds to a builder of restart interval R >= 1 the restart
\* array is strictly increasing, starts with 0 and has ceil(n / R) elements,
\* and entry i (from 0) starts at a restart offset exactly when i mod R = 0;
\* with no adds the array is [0].
C21_RestartPoints ==
    pc = "builder" =>
        LET n == Len(dec.added)
            R == arg.restart_interval
        IN  /\ Len(enc.restarts) >= 1 /\ enc.restarts[1] = 0
            /\ \A i \in 1..(Len(enc.restarts) - 1) : enc.restarts[i] < enc.restarts[i + 1]
            /\ Len(enc.restarts) = IF n = 0 THEN 1 ELSE (n + R - 1) \div R
            /\ \A i \in 1..n : (dec.added[i].at \in RestartOffsets) <=> ((i - 1) % R = 0)

\* three entries were added at restart interval 2: two restart points, the
\* second where the third entry starts
C21_Witness ==
    /\ pc = "builder" /\ arg.restart_interval = 2 /\ Len(dec.added) = 3
    /\ Len(enc.restarts) = 2 /\ enc.restarts[2] = dec.added[3].at
    /\ dec.added[2].at \notin RestartOffsets

\* the length of the longest common prefix of two keys
CommonPrefixLen(a, b) ==
    CHOOSE k \in 0..Min(Len(a), Len(b)) :
        /\ \A j \in 1..k : a[j] = b[j]
        /\ k = Min(Len(a), Len(b)) \/ a[k + 1] # b[k + 1]

\* the shared length entry i (from 1) is to carry
SharedOf(i) ==
    IF (i - 1) % arg.restart_interval = 0 THEN 0
    ELSE CommonPrefixLen(dec.added[i - 1].key, dec.added[i].key)

\* C22: for each entry written by add the encoded shared length is 0 when the
\* entry starts a restart span and otherwise the length of the longest common
\* prefix of the previous key and this key; non_shared is |key| - shared and the
\* bytes written are the three varints, key[shared..] and the value.
C22_PrefixCompression ==
    pc = "builder" =>
        \A i \in 1..Len(dec.added) :
            LET e == dec.added[i]
            IN  e.wrote = EncodeVarint32(SharedOf(i))
                          \o EncodeVarint32(Len(e.key) - SharedOf(i))
                          \o EncodeVarint32(Len(e.value))
                          \o Slice(e.key, SharedOf(i), Len(e.key)) \o e.value

\* "a" then "aa" then "ab" at restart interval 2: the second entry shares one
\* byte, the third starts a restart span and shares none
C22_Witness ==
    /\ pc = "builder" /\ arg.restart_interval = 2 /\ Len(dec.added) = 3
    /\ dec.added[1].key = <<97>> /\ dec.added[2].key = <<97, 97>>
    /\ dec.added[3].key = <<97, 98>>
    /\ dec.added[2].wrote[1] = 1 /\ dec.added[3].wrote[1] = 0

\* the block of scenario S2 was built and parsed
S2Parsed ==
    /\ pc = "builder" /\ arg.script = S2Entries /\ Len(dec.added) = 5
    /\ dec.call = "parse"

\* C23 as claimed: the block of S2 has at least 2 restart points, its first
\* entry has shared = 0 and its second shared = 7, and the parsed keys are the
\* inputs.
C23_ScenarioS2 ==
    S2Parsed =>
        /\ dec.out.ok
        /\ Len(dec.out.v.restart_points) >= 2
        /\ dec.out.v.headers[1].v.shared_key_len = 0
        /\ dec.out.v.headers[2].v.shared_key_len = 7
        /\ dec.out.v.entries.ok
        /\ [i \in 1..Len(dec.out.v.entries.v) |-> dec.out.v.entries.v[i].key]
              = [i \in 1..5 |-> UserKey(i)]

\* C23 amended: the second entry has shared = 8, the length of "user:000";
\* the block has exactly 2 restart points (at the first and the fifth entry)
\* and the parsed entries are the inputs.
C23_ScenarioS2Shares8 ==
    S2Parsed =>
        /\ dec.out.ok
        /\ Len(dec.out.v.restart_points) = 2
        /\ dec.out.v.restart_points[2] = dec.added[5].at
        /\ dec.out.v.headers[1].v.shared_key_len = 0
        /\ dec.out.v.headers[2].v.shared_key_len = 8
        /\ dec.out.v.entries = Ok(S2Entries)

\* S2 was built, finished and parsed
C23_Witness == S2Parsed /\ dec.out.ok /\ Len(dec.out.v.entries.v) = 5

\* C24: after finish a further add or finish panics and leaves the builder
\* as it is; reset returns the builder to its initial state; and a finish
\* returns the bytes a fresh builder given the entries added since the last
\* reset returns.
C24_BuilderLifecycle ==
    /\ [](pc = "builder" =>
             /\ dec.call = "reset" =>
                   /\ enc.buffer = <<>> /\ enc.restarts = << 0 >> /\ enc.counter = 0
                   /\ enc.last_key = <<>> /\ ~enc.finished
             /\ (dec.call = "finish" /\ dec.out.ok) =>
                   /\ enc.finished
                   /\ dec.out.v =
                          DataBlockBuilder_finish(
                              DataBlockAddAll(DataBlockBuilder_new(arg.restart_interval),
                                              dec.added, 1),
                              CompressionType_None, ChecksumType_CRC32c, None, None).out.v)
    /\ [][(pc = "builder" /\ enc.finished /\ dec'.call \in {"add", "finish"}) =>
             (dec'.out = Err("panic") /\ enc' = enc)]_vars

\* a builder that was reset after a finish took two entries and was finished again
C24_Witness ==
    /\ pc = "builder" /\ dec.was_reset /\ dec.call = "finish" /\ dec.out.ok
    /\ Len(dec.added) = 2 /\ dec.added[2].wrote[1] = 1

----------------------------------------------------------------------------
(* EntrySpec: one put, merge or delete on a writer that was just opened, and  *)
(* the data block that finish writes for it.  enc holds the writer after the  *)
(* call and what the call returned, dec what finish returned and the entries  *)
(* of the data block in the file.                                             *)

\* the calls: put and merge with a key and a value, delete with a key
EntryInputs ==
    {[op |-> op, key |-> k, value |-> v, options |-> o] :
        op \in {"put", "merge"}, k \in Keys, v \in Values,
        o \in {w \in WriterOptions : w.compression = CompressionType_None}}
    \cup {[op |-> "delete", key |-> k, value |-> <<>>, options |-> o] :
             k \in Keys, o \in {w \in WriterOptions : w.compression = CompressionType_None}}

EntryInit ==
    /\ WriterUnused
    /\ pc = "entry"
    /\ arg \in EntryInputs
    /\ enc = None
    /\ dec = None

\* create, open and the one put, merge or delete
AddEntry ==
    /\ pc = "entry"
    /\ LET w == SstFileWriter_open(SstFileWriter_create(arg.options)).w
       IN  enc' = CASE arg.op = "put" -> SstFileWriter_put(w, arg.key, arg.value)
                    [] arg.op = "merge" -> SstFileWriter_merge(w, arg.key, arg.value)
                    [] arg.op = "delete" -> SstFileWriter_delete(w, arg.key)
    /\ pc' = "added"
    /\ UNCHANGED <<arg, dec, writerVars, readerVars>>

\* the entries of the first data block a writer wrote
WrittenEntries(w) ==
    LET block == DataBlock_new(Slice(w.file, w.blocks[1].block_handle.offset,
                                     w.blocks[1].block_handle.offset
                                         + w.blocks[1].block_handle.size),
                               CompressionType_None, FALSE)
    IN  IF ~block.ok THEN block ELSE DataBlock_get_entries(block.v)

\* finish, and DataBlock::new and get_entries on the data block in the file
FinishEntry ==
    /\ pc = "added" /\ enc.out.ok
    /\ LET done == SstFileWriter_finish(enc.w)
       IN  dec' = [out |-> done.out,
                   entries |-> IF done.out.ok /\ done.w.blocks # <<>>
                               THEN WrittenEntries(done.w) ELSE Err("none")]
    /\ pc' = "stored"
    /\ UNCHANGED <<arg, enc, writerVars, readerVars>>

EntryNext ==
    \/ AddEntry
    \/ FinishEntry

EntrySpec == EntryInit /\ [][EntryNext]_vars

\* the value the file is to hold for a call: the tag, then the payload
TaggedValue(a) ==
    CASE a.op = "put" -> << 0 >> \o a.value
      [] a.op = "delete" -> << 1 >>
      [] a.op = "merge" -> << 2 >> \o a.value

\* C29: put(k, v) stores under k the value [Put tag] then v, merge(k, v) the
\* value [Merge tag] then v, and delete(k) the one byte [Delete tag], with the
\* tag values Put = 0, Delete = 1, Merge = 2.
C29_EntryTagging ==
    /\ pc \in {"added", "stored"} =>
          /\ enc.out.ok
          /\ enc.w.accepted = << [key |-> arg.key, value |-> TaggedValue(arg)] >>
          /\ enc.w.data_block_builder.buffer =
                 << 0, Len(arg.key), Len(TaggedValue(arg)) >> \o arg.key \o TaggedValue(arg)
    /\ pc = "stored" =>
          /\ dec.out.ok
          /\ dec.entries = Ok(<< [key |-> arg.key, value |-> TaggedValue(arg)] >>)

\* a merge of a two-byte value and a delete were stored and read back from the file
C29_Witness ==
    /\ pc = "stored" /\ dec.entries.ok /\ arg.key = << 97, 98 >>
    /\ \/ arg.op = "merge" /\ dec.entries.v[1].value = << 2, 0, 7 >>
       \/ arg.op = "delete" /\ dec.entries.v[1].value = << 1 >>


\* ---------------------------------------------------------------------------
\* the empty table: open followed by finish, no entry accepted in between

\* the metaindex block of the finished file
WrittenMetaindexBlock ==
    Slice(file, offset - Len(SstFileWriter_create_empty_metaindex_block), offset)

\* the footer of the finished file, decoded at the offset it was written at
WrittenFooterDecoded ==
    Footer_decode_from_bytes(Slice(file, offset, Len(file)), offset, FALSE)

\* finish succeeded on a writer that accepted no entry
EmptyTableFinished == finished /\ num_entries = 0 /\ blocks = <<>>

\* a block of the file parses, with one restart point at 0 and no entries
ParsesEmpty(block, entries) ==
    /\ block.ok /\ block.v.restart_points = << 0 >>
    /\ entries = Ok(<<>>)

\* the index and metaindex blocks of the empty table
EmptyTableBlocks ==
    /\ file = WrittenIndexBlock \o WrittenMetaindexBlock \o Slice(file, offset, Len(file))
    /\ Len(WrittenIndexBlock) > 0
    /\ ParsesEmpty(IndexBlock_new(WrittenIndexBlock, CompressionType_None, FALSE),
                   IndexBlock_get_entries(
                       IndexBlock_new(WrittenIndexBlock, CompressionType_None, FALSE).v))
    /\ ParsesEmpty(DataBlock_new(WrittenMetaindexBlock, CompressionType_None, FALSE),
                   DataBlock_get_entries(
                       DataBlock_new(WrittenMetaindexBlock, CompressionType_None, FALSE).v))

\* C30 as claimed: open followed immediately by finish succeeds and writes an
\* index block and a metaindex block, each with zero entries and a single
\* restart point at 0, and a footer whose index handle has non-zero size.
C30_EmptyTable ==
    EmptyTableFinished =>
        /\ EmptyTableBlocks
        /\ WrittenFooterDecoded.ok
        /\ WrittenFooterDecoded.v.index_handle.size > 0

\* C30 amended: open followed immediately by finish succeeds and writes an
\* index block and a metaindex block, each with zero entries and a single
\* restart point at 0, and a footer.  The Footer that finish builds has an
\* index handle of non-zero size, the size of the index block; the footer in
\* the file carries that handle for format_version 5 and a null index handle
\* for format_version 6.
C30_EmptyTableFooter ==
    EmptyTableFinished =>
        /\ EmptyTableBlocks
        /\ written_footer.some
        /\ written_footer.v.index_handle = BlockHandle(0, Len(WrittenIndexBlock))
        /\ WrittenFooterDecoded.ok
        /\ WrittenFooterDecoded.v.index_handle =
               IF options.format_version >= 6 THEN BlockHandle(0, 0)
               ELSE written_footer.v.index_handle

\* finish returned Ok right after open, for format_version 6
C30_Witness ==
    /\ EmptyTableFinished
    /\ result.some /\ result.v.call = "finish" /\ result.v.out.ok
    /\ options.format_version = 6
    /\ Len(file) > 0


----------------------------------------------------------------------------
(* ParseSpec: DataBlock::new and IndexBlock::new on bytes no builder wrote. *)

\* longest run of entry bytes tried
MaxEntryBytes == 4

\* the byte sequences over alphabet of up to n bytes
ByteSeqs(alphabet, n) == UNION {[1..k -> alphabet] : k \in 0..n}

\* blocks as they may come from a file: entry bytes, a restart array, the
\* restart count and a trailer, none of them bound to the others
ParseInputs ==
    {[data |-> ent \o restarts \o U32LE(count) \o trailer] :
        ent \in ByteSeqs({0, 1, 2, 97}, MaxEntryBytes),
        restarts \in {<<>>, U32LE(0), U32LE(0) \o U32LE(3)},
        count \in 0..3,
        trailer \in {<<>>, Zeros(5)}}

ParseInit ==
    /\ WriterUnused
    /\ pc = "input"
    /\ arg \in ParseInputs
    /\ enc = None
    /\ dec = None

\* DataBlock::new on the bytes, then get_entries
ParseAsDataBlock ==
    /\ pc = "input"
    /\ LET block == DataBlock_new(arg.data, CompressionType_None, FALSE)
       IN  dec' = [kind |-> "data", block |-> block,
                   entries |-> IF block.ok THEN DataBlock_get_entries(block.v) ELSE block]
    /\ pc' = "parsed"
    /\ UNCHANGED <<arg, enc, writerVars, readerVars>>

\* IndexBlock::new on the bytes, then get_entries
ParseAsIndexBlock ==
    /\ pc = "input"
    /\ LET block == IndexBlock_new(arg.data, CompressionType_None, FALSE)
       IN  dec' = [kind |-> "index", block |-> block,
                   entries |-> IF block.ok THEN IndexBlock_get_entries(block.v) ELSE block]
    /\ pc' = "parsed"
    /\ UNCHANGED <<arg, enc, writerVars, readerVars>>

ParseNext ==
    \/ ParseAsDataBlock
    \/ ParseAsIndexBlock

ParseSpec == ParseInit /\ [][ParseNext]_vars

\* the block's bytes without the trailer hold no restart table: no room for the
\* count, a count of 0, or fewer than 4 + 4 * count bytes
NoRestartTable(data) ==
    \/ Len(data) < 4
    \/ ReadU32LE(data, Len(data) - 4) = 0
    \/ Len(data) < 4 + 4 * ReadU32LE(data, Len(data) - 4)

\* C31: parsing a block whose restart_count field is 0, or whose length is
\* smaller than 4 + 4 * restart_count, fails with InvalidBlockFormat, for both
\* DataBlock::new and IndexBlock::new.
C31_RestartTableValidated ==
    (pc = "parsed" /\ NoRestartTable(StripTrailer(arg.data))) =>
        dec.block = Err("InvalidBlockFormat")

\* get_entries on the payload region [0, restart_offset) alone
EntriesOfPayload(block) ==
    DataBlock_get_entries([block EXCEPT !.data = Slice(block.data, 0, block.restart_offset)])

\* C32: DataBlock::get_entries returns InvalidBlockFormat for any entry whose
\* shared length exceeds the length of the previous key and for any entry whose
\* key suffix or value would extend past the payload region [0, restart_offset);
\* the entries it returns are those of the payload region, none built from
\* restart-array bytes.
C32_EntryBounds ==
    (pc = "parsed" /\ dec.kind = "data" /\ dec.block.ok) =>
        /\ dec.entries.ok => dec.entries = EntriesOfPayload(dec.block.v)
        /\ EntriesOfPayload(dec.block.v) = Err("InvalidBlockFormat") =>
               dec.entries = Err("InvalidBlockFormat")


----------------------------------------------------------------------------
(* TrailerSpec: finish of either builder, with and without a file offset    *)
(* and a base context checksum.                                             *)

TrailerInputs ==
    UNION {
        {[kind |-> "data", compression |-> c, checksum_type |-> ct,
          file_offset |-> fo, base_context_checksum |-> base,
          entries |-> [i \in 1..n |-> [key |-> ks[i], value |-> vs[i]]]] :
            ks \in SortedKeySeqs(n), vs \in [1..n -> Values],
            c \in {CompressionType_None, CompressionType_Snappy, CompressionType_LZ4},
            ct \in {ChecksumType_None, ChecksumType_CRC32c, ChecksumType_XXH3},
            fo \in {None, Some(0), Some(1000)},
            base \in {None, Some(<< 0, 0, 0, 0 >>), Some(<< 1, 2, 3, 4 >>)}}
        \cup
        {[kind |-> "index", compression |-> c, checksum_type |-> ct,
          file_offset |-> fo, base_context_checksum |-> base,
          entries |-> [i \in 1..n |-> [key |-> ks[i], block_handle |-> hs[i]]]] :
            ks \in SortedKeySeqs(n), hs \in [1..n -> Handles],
            c \in {CompressionType_None, CompressionType_Snappy},
            ct \in {ChecksumType_CRC32c},
            fo \in {None, Some(0), Some(1000)},
            base \in {None, Some(<< 0, 0, 0, 0 >>), Some(<< 1, 2, 3, 4 >>)}}
        : n \in 0..1 }

TrailerInit ==
    /\ WriterUnused
    /\ pc = "input"
    /\ arg \in TrailerInputs
    /\ enc = None
    /\ dec = None

\* DataBlockBuilder: new, add for each entry, finish; dec keeps the buffer of
\* the finished builder
FinishDataBlock ==
    /\ pc = "input" /\ arg.kind = "data"
    /\ enc' = DataBlockBuilder_finish(
                  DataBlockAddAll(DataBlockBuilder_new(2), arg.entries, 1),
                  arg.compression, arg.checksum_type, arg.file_offset,
                  arg.base_context_checksum)
    /\ pc' = "finished"
    /\ UNCHANGED <<arg, dec, writerVars, readerVars>>

\* IndexBlockBuilder: new, add_index_entry for each entry, finish
FinishIndexBlock ==
    /\ pc = "input" /\ arg.kind = "index"
    /\ enc' = IndexBlockBuilder_finish(
                  IndexBlockAddAll(IndexBlockBuilder_new(2), arg.entries, 1),
                  arg.compression, arg.checksum_type, arg.file_offset,
                  arg.base_context_checksum)
    /\ pc' = "finished"
    /\ UNCHANGED <<arg, dec, writerVars, readerVars>>

TrailerNext ==
    \/ FinishDataBlock
    \/ FinishIndexBlock

TrailerSpec == TrailerInit /\ [][TrailerNext]_vars

\* the context modifier finish was asked for
RequestedModifier ==
    IF arg.file_offset.some /\ arg.base_context_checksum.some
    THEN checksum_modifier_for_context(arg.base_context_checksum.v, arg.file_offset.v)
    ELSE << 0, 0, 0, 0 >>

\* C33: the last 5 bytes of every block finish returns are the compression tag
\* passed to finish followed by the little-endian u32 checksum of (stored
\* payload bytes followed by the tag byte), to which the context modifier is
\* wrap-added exactly when both file_offset and base_context_checksum are
\* provided; the tag is the requested one even when compression does not
\* shrink the payload.
C33_BlockTrailer ==
    pc = "finished" =>
        /\ enc.out.ok
        /\ Len(enc.out.v) >= 5
        /\ enc.out.v[Len(enc.out.v) - 4] = arg.compression
        /\ Slice(enc.out.v, Len(enc.out.v) - 4, Len(enc.out.v)) =
               wrapping_add(
                   ChecksumType_calculate(arg.checksum_type,
                                          Slice(enc.out.v, 0, Len(enc.out.v) - 4)),
                   RequestedModifier)

\* a compressed data block that is not shorter than the builder's buffer, with
\* a modifier that changed its checksum
C33_Witness ==
    /\ pc = "finished" /\ arg.kind = "data" /\ arg.compression = CompressionType_Snappy
    /\ arg.checksum_type = ChecksumType_CRC32c
    /\ arg.file_offset = Some(1000) /\ arg.base_context_checksum = Some(<< 1, 2, 3, 4 >>)
    /\ Len(arg.entries) = 1
    /\ Len(enc.out.v) - 5 >= Len(enc.b.buffer)
    /\ Slice(enc.out.v, Len(enc.out.v) - 4, Len(enc.out.v)) #
           ChecksumType_calculate(arg.checksum_type, Slice(enc.out.v, 0, Len(enc.out.v) - 4))


\* C34: add_index_entry stores each BlockHandle as varint(offset) followed by
\* varint(size) over the full u64 values, and get_entries returns the same
\* (offset, size), including offsets and sizes of 2^32 or more.
C34_IndexHandleWidth ==
    (arg.kind = "index_entry" /\ pc = "decoded") =>
        dec = Ok([key |-> arg.key,
                  value |-> BlockHandle_encode_to_u64(arg.handle),
                  block_handle |-> arg.handle])


\* C35: at every point of the writer's life file_size() equals the number of
\* bytes written to the file so far; after a successful finish it equals the
\* length of the finished file, footer included.
C35_FileSize == SstFileWriter_file_size(Self) = Len(file)


\* the entry the iterator's data block reader stands on
CurrentEntry(it) ==
    it.current_data_block.v.entries[it.current_data_block.v.current_entry + 1]

\* C36: whenever valid() is true, after any sequence of seek_to_first,
\* seek_to_last, seek, next and prev, key() and value() return Some and they are
\* the key and value of the entry the iterator is positioned on; right after
\* seek_to_first key() is the first key of the table.
C36_ValidHasKeyAndValue ==
    (IterOpen /\ SstTableIterator_valid(iterator.v.v)) =>
        /\ SstTableIterator_key(iterator.v.v) = Some(CurrentEntry(iterator.v.v).key)
        /\ SstTableIterator_value(iterator.v.v) = Some(CurrentEntry(iterator.v.v).value)
        /\ (result.some /\ result.v.call = "seek_to_first") =>
               SstTableIterator_key(iterator.v.v) = Some(arg.entries[1].key)

\* C37: after seek_to_last on a table with at least one entry, valid() is true
\* and key() is the largest key stored in the table, the last entry of the last
\* data block, also when the last block holds a single entry.
C37_SeekToLast ==
    (IterOpen /\ result.some /\ result.v.call = "seek_to_last") =>
        /\ result.v.out.ok
        /\ SstTableIterator_valid(iterator.v.v)
        /\ SstTableIterator_key(iterator.v.v) = Some(arg.entries[Len(arg.entries)].key)


\* the call the writer was given last was an add that returned InvalidArgument
AddRejected ==
    /\ result.some /\ result.v.call \in {"put", "merge", "delete"}
    /\ result.v.out = Err("InvalidArgument")

\* C38: a put, delete or merge that returns InvalidArgument for a key-order
\* violation changes neither last_key, num_entries, offset, the data block
\* builder, the pending index entry nor the file, and a following add with a
\* key greater than last_key succeeds as if the rejected call had not happened.
C38_RejectedAddLeavesWriter ==
    [][(writer.some /\ ~finished /\ AddRejected') =>
          /\ UNCHANGED <<last_key, num_entries, offset, data_block_builder,
                         pending_index_entry, file>>
          /\ \A key \in WriterKeys, value \in WriterValues :
                LexLess(last_key, key) =>
                    /\ SstFileWriter_put(Self', key, value).out.ok
                    /\ SstFileWriter_put(Self', key, value) = SstFileWriter_put(Self, key, value)]_vars

\* a put was rejected for its key after an entry was accepted, and a greater
\* key is there to be added next
C38_Witness ==
    /\ AddRejected /\ result.v.call = "put"
    /\ writer.some /\ ~finished
    /\ num_entries = 1 /\ last_key = << 97 >>
    /\ \E key \in WriterKeys : LexLess(last_key, key)


\* the offset the last decode_from_bytes was given
DecodedAtOffset == IF dec.call = "decode_elsewhere" THEN dec.input_offset ELSE arg.file_offset

\* C39: Footer::decode_from_bytes returns Ok or Err for every byte slice and
\* every input_offset and never aborts on arithmetic underflow; a v6+ footer
\* decoded with input_offset < 5, or whose metaindex_size exceeds
\* input_offset - 5, yields an error rather than a wrapped metaindex offset or
\* a panic.
C39_FooterDecodingTotal ==
    (pc = "decoded" /\ dec.call \in {"decode_from_bytes", "decode_elsewhere"}) =>
        /\ dec.out # Err("panic")
        /\ (/\ arg.footer.format_version \in 6..7
            /\ \/ DecodedAtOffset < 5
               \/ arg.footer.metaindex_handle.size > DecodedAtOffset - 5) => ~dec.out.ok

====
